---- MODULE Spec2Model ----
(***************************************************************************)
(* A state-machine model of the ruboy Game Boy emulator core: the CPU      *)
(* fetch/decode/execute engine (cpu/mod.rs, cpu/instructions/mod.rs), the  *)
(* instruction tables (isa/decoder.rs, isa/len.rs, isa/cycles.rs), the     *)
(* memory controller (memcontroller/) and the PPU (ppu/).                  *)
(*                                                                         *)
(* Two behaviours of the Rust build are kept as they are in the code:      *)
(*   - todo!(), unreachable!() and .unwrap() on an Err abort the call;     *)
(*   - a plain + or - on u8/u16 aborts when the build checks overflow      *)
(*     (debug profile) and wraps when it does not (release profile).       *)
(* The variable build selects the profile; it never changes.               *)
(***************************************************************************)
EXTENDS Integers, Sequences, FiniteSets, TLC

VARIABLES
  cpu,      \* Cpu: registers, cycles_remaining, interrupts_master, ei_queued
  mem,      \* MemController: memory cells, interrupts_enabled, io_registers
  ppu,      \* Ppu: mode, line/frame counters, OAM-scan and draw data, fetcher
  build,    \* [overflow_checks]: the profile the crate was compiled with
  outcome,  \* result of the last call: Ok, an Err value, or an abort
  hist,     \* what the last run_cycle calls did (history, not program state)
  host,     \* the host side: calls left to make, frames the sink received,
            \* calls of the PPU made, times the PPU entered VBlank
  loop,     \* Ruboy::start: the call the loop makes next, the calls it made
  dma,      \* DMAController: the OAM transfer in flight, if any
  cart      \* the cartridge's Mbc1 controller

vars == <<cpu, mem, ppu, build, outcome, hist, host, loop, dma, cart>>

----------------------------------------------------------------------------
(* Fixed-width integer helpers                                              *)

Pow2(n) == 2 ^ n

BitAt(x, i) == (x \div Pow2(i)) % 2

RECURSIVE BitAnd(_, _)
BitAnd(x, y) ==
  IF x = 0 \/ y = 0 THEN 0
  ELSE (x % 2) * (y % 2) + 2 * BitAnd(x \div 2, y \div 2)

RECURSIVE BitOr(_, _)
BitOr(x, y) ==
  IF x = 0 THEN y
  ELSE IF y = 0 THEN x
  ELSE (IF (x % 2) + (y % 2) > 0 THEN 1 ELSE 0) + 2 * BitOr(x \div 2, y \div 2)

RECURSIVE BitXor(_, _)
BitXor(x, y) ==
  IF x = 0 THEN y
  ELSE IF y = 0 THEN x
  ELSE ((x + y) % 2) + 2 * BitXor(x \div 2, y \div 2)

\* !x at width w
BitNot(w, x) == Pow2(w) - 1 - x

\* x with bit i forced to v
WithBit(x, i, v) == x - BitAt(x, i) * Pow2(i) + (IF v THEN Pow2(i) ELSE 0)

\* u8/u16 wrapping_add, wrapping_sub
wrapping_add(w, x, y) == (x + y) % Pow2(w)

wrapping_sub(w, x, y) == (x - y + Pow2(w)) % Pow2(w)

\* A plain `x + y` / `x - y` of the code: the wrapped value and whether the
\* exact result left the type's range.
PlainAdd(w, x, y) ==
  [v |-> wrapping_add(w, x, y), ovf |-> x + y >= Pow2(w), w |-> w]

PlainSub(w, x, y) == [v |-> wrapping_sub(w, x, y), ovf |-> x < y, w |-> w]

\* `b as i8`
AsI8(b) == IF b >= 128 THEN b - 256 ELSE b

----------------------------------------------------------------------------
(* Outcomes of a call                                                       *)

NoFault == [kind |-> "none", code |-> 0]

OkOutcome == [st |-> "ok", fault |-> NoFault]

Fault(kind, code) == [kind |-> kind, code |-> code]

\* s with the call ended by Err(kind(code))
Fail(s, kind, code) ==
  IF s.st # "ok" THEN s ELSE [s EXCEPT !.st = "err", !.fault = Fault(kind, code)]

\* s with the process aborted
Abort(s, kind, code) ==
  IF s.st # "ok" THEN s ELSE [s EXCEPT !.st = "panic", !.fault = Fault(kind, code)]

\* s after a plain arithmetic step p: aborts when the build checks overflow
Checked(s, p) ==
  IF p.ovf /\ s.overflow_checks
  THEN Abort(s, IF p.w = 16 THEN "overflow_u16" ELSE "overflow_u8", p.v)
  ELSE s

----------------------------------------------------------------------------
(* cpu/nums.rs                                                              *)

lsb_set(x) == x % 2 = 1

msb_set(x) == BitAt(x, 7) = 1

set_lsb(x, v) == WithBit(x, 0, v)

set_msb(x, v) == WithBit(x, 7, v)

halfcarry_add(w, self, right) ==
  BitAt(BitXor(BitXor(self, right), wrapping_add(w, self, right)), w \div 2) = 1

halfcarry_sub(w, self, right) ==
  BitAt(BitXor(BitXor(self, BitNot(w, right)), wrapping_sub(w, self, right)),
        w \div 2) = 1

rotate_left(x) == ((x * 2) % 256) + BitAt(x, 7)

rotate_right(x) == (x \div 2) + 128 * (x % 2)

wrapping_shl(x) == (x * 2) % 256

wrapping_shr(x) == x \div 2

----------------------------------------------------------------------------
(* cpu/registers.rs                                                         *)

RegistersNew ==
  [a |-> 0, b |-> 0, c |-> 0, d |-> 0, e |-> 0, f |-> 0, h |-> 0, l |-> 0,
   sp |-> 0, pc |-> 0]

ZERO_BIT      == 7
SUBTRACT_BIT  == 6
HALFCARRY_BIT == 5
CARRY_BIT     == 4

zero_flag(s) == BitAt(s.r.f, ZERO_BIT) = 1

subtract_flag(s) == BitAt(s.r.f, SUBTRACT_BIT) = 1

half_carry_flag(s) == BitAt(s.r.f, HALFCARRY_BIT) = 1

carry_flag(s) == BitAt(s.r.f, CARRY_BIT) = 1

set_f(s, value) == [s EXCEPT !.r.f = value]

set_zero_flag(s, v) == set_f(s, WithBit(s.r.f, ZERO_BIT, v))

set_subtract_flag(s, v) == set_f(s, WithBit(s.r.f, SUBTRACT_BIT, v))

set_half_carry_flag(s, v) == set_f(s, WithBit(s.r.f, HALFCARRY_BIT, v))

set_carry_flag(s, v) == set_f(s, WithBit(s.r.f, CARRY_BIT, v))

set_flags(s, z, n, h, c) ==
  set_carry_flag(set_half_carry_flag(set_subtract_flag(set_zero_flag(s, z), n), h), c)

af(s) == s.r.a * 256 + s.r.f

bc(s) == s.r.b * 256 + s.r.c

de(s) == s.r.d * 256 + s.r.e

hl(s) == s.r.h * 256 + s.r.l

set_af(s, value) == [s EXCEPT !.r.a = value \div 256, !.r.f = value % 256]

set_bc(s, value) == [s EXCEPT !.r.b = value \div 256, !.r.c = value % 256]

set_de(s, value) == [s EXCEPT !.r.d = value \div 256, !.r.e = value % 256]

set_hl(s, value) == [s EXCEPT !.r.h = value \div 256, !.r.l = value % 256]

set_sp(s, value) == [s EXCEPT !.r.sp = value]

set_pc(s, value) == [s EXCEPT !.r.pc = value]

set_a(s, value) == [s EXCEPT !.r.a = value]

----------------------------------------------------------------------------
(* memcontroller/interrupts.rs: the IE / IF bitmaps                         *)

\* The masks as the getters and setters write them: 0b1, 0b01, 0b001,
\* 0b0001 and 0b00001.
VBLANK_MASK == 1
LCD_MASK    == 1
TIMER_MASK  == 1
SERIAL_MASK == 1
JOYPAD_MASK == 1

Interrupts_get(raw, mask) == BitAnd(raw, mask) # 0

Interrupts_set(raw, mask, val) ==
  IF val THEN BitOr(raw, mask) ELSE BitAnd(raw, BitNot(8, mask))

vblank(raw) == Interrupts_get(raw, VBLANK_MASK)

lcd(raw) == Interrupts_get(raw, LCD_MASK)

timer(raw) == Interrupts_get(raw, TIMER_MASK)

serial(raw) == Interrupts_get(raw, SERIAL_MASK)

joypad(raw) == Interrupts_get(raw, JOYPAD_MASK)

set_vblank(raw, val) == Interrupts_set(raw, VBLANK_MASK, val)

set_lcd(raw, val) == Interrupts_set(raw, LCD_MASK, val)

set_timer(raw, val) == Interrupts_set(raw, TIMER_MASK, val)

set_serial(raw, val) == Interrupts_set(raw, SERIAL_MASK, val)

set_joypad(raw, val) == Interrupts_set(raw, JOYPAD_MASK, val)

----------------------------------------------------------------------------
(* memcontroller/io.rs: the I/O register file                               *)

IoRegsNew ==
  [joypad |-> 0, timer_div |-> 0, timer_counter |-> 0, timer_modulo |-> 0,
   timer_control |-> 0, interrupts_requested |-> 0, lcd_control |-> 0,
   lcd_stat |-> 0, scy |-> 0, scx |-> 0, lcd_y |-> 0, lcd_y_comp |-> 0,
   oam_dma |-> 0, bg_palette |-> 0, obj0_palette |-> 0, obj1_palette |-> 0,
   win_y |-> 0, win_x |-> 0, boot_rom_enabled |-> FALSE]

\* IoRegs::write with 0xFF50 as a plain switch: zero enables the overlay
IoRegs_write_switch(io, addr, val) ==
  CASE addr = 65280 -> [io EXCEPT !.joypad = BitOr(BitAnd(io.joypad, 15), BitAnd(val, 240))]
    [] addr = 65284 -> [io EXCEPT !.timer_div = 0]
    [] addr = 65285 -> [io EXCEPT !.timer_counter = val]
    [] addr = 65286 -> [io EXCEPT !.timer_modulo = val]
    [] addr = 65287 -> [io EXCEPT !.timer_control = val]
    [] addr = 65344 -> [io EXCEPT !.lcd_control = val]
    [] addr = 65345 -> [io EXCEPT !.lcd_stat = val]
    [] addr = 65346 -> [io EXCEPT !.scy = val]
    [] addr = 65347 -> [io EXCEPT !.scx = val]
    [] addr = 65349 -> [io EXCEPT !.lcd_y_comp = val]
    [] addr = 65350 -> [io EXCEPT !.oam_dma = val]
    [] addr = 65351 -> [io EXCEPT !.bg_palette = val]
    [] addr = 65352 -> [io EXCEPT !.obj0_palette = val]
    [] addr = 65353 -> [io EXCEPT !.obj1_palette = val]
    [] addr = 65354 -> [io EXCEPT !.win_y = val]
    [] addr = 65355 -> [io EXCEPT !.win_x = val]
    [] addr = 65360 -> [io EXCEPT !.boot_rom_enabled = (val = 0)]
    [] OTHER -> io

\* IoRegs::write for an address in 0xFF00..=0xFF7F
IoRegs_write(io, addr, val) ==
  CASE addr = 65280 -> [io EXCEPT !.joypad = BitOr(BitAnd(io.joypad, 15), BitAnd(val, 240))]
    [] addr = 65284 -> [io EXCEPT !.timer_div = 0]
    [] addr = 65285 -> [io EXCEPT !.timer_counter = val]
    [] addr = 65286 -> [io EXCEPT !.timer_modulo = val]
    [] addr = 65287 -> [io EXCEPT !.timer_control = val]
    [] addr = 65344 -> [io EXCEPT !.lcd_control = val]
    [] addr = 65345 -> [io EXCEPT !.lcd_stat = val]
    [] addr = 65346 -> [io EXCEPT !.scy = val]
    [] addr = 65347 -> [io EXCEPT !.scx = val]
    [] addr = 65349 -> [io EXCEPT !.lcd_y_comp = val]
    [] addr = 65350 -> [io EXCEPT !.oam_dma = val]
    [] addr = 65351 -> [io EXCEPT !.bg_palette = val]
    [] addr = 65352 -> [io EXCEPT !.obj0_palette = val]
    [] addr = 65353 -> [io EXCEPT !.obj1_palette = val]
    [] addr = 65354 -> [io EXCEPT !.win_y = val]
    [] addr = 65355 -> [io EXCEPT !.win_x = val]
    [] addr = 65360 -> [io EXCEPT !.boot_rom_enabled = io.boot_rom_enabled /\ val = 0]
    [] OTHER -> io

\* IoRegs::read for an address in 0xFF00..=0xFF7F
IoRegs_read(io, addr) ==
  CASE addr = 65280 -> io.joypad
    [] addr = 65284 -> io.timer_div
    [] addr = 65285 -> io.timer_counter
    [] addr = 65286 -> io.timer_modulo
    [] addr = 65287 -> io.timer_control
    [] addr = 65344 -> io.lcd_control
    [] addr = 65345 -> io.lcd_stat
    [] addr = 65346 -> io.scy
    [] addr = 65347 -> io.scx
    [] addr = 65348 -> io.lcd_y
    [] addr = 65349 -> io.lcd_y_comp
    [] addr = 65350 -> io.oam_dma
    [] addr = 65351 -> io.bg_palette
    [] addr = 65352 -> io.obj0_palette
    [] addr = 65353 -> io.obj1_palette
    [] addr = 65354 -> io.win_y
    [] addr = 65355 -> io.win_x
    [] OTHER -> 0

----------------------------------------------------------------------------
(* memcontroller/mod.rs and rom/controller/nonbanking.rs                    *)

EmptyCells == [x \in {} |-> 0]

\* A memory is a finite function from the addresses that were given a value
\* to bytes; every other cell holds zero (A::empty()).
CellGet(cells, addr) == IF addr \in DOMAIN cells THEN cells[addr] ELSE 0

CellPut(cells, addr, val) ==
  [x \in (DOMAIN cells) \cup {addr} |-> IF x = addr THEN val ELSE cells[x]]

map_to_region(m, addr) ==
  CASE addr <= 254 -> IF m.io_registers.boot_rom_enabled THEN "BootRom" ELSE "Cartridge"
    [] addr >= 255 /\ addr <= 32767 -> "Cartridge"
    [] addr >= 32768 /\ addr <= 40959 -> "VRam"
    [] addr >= 40960 /\ addr <= 49151 -> "Cartridge"
    [] addr >= 49152 /\ addr <= 57343 -> "WorkRam"
    [] addr >= 57344 /\ addr <= 65023 -> "EchoRam"
    [] addr >= 65024 /\ addr <= 65183 -> "ObjectAttrMem"
    [] addr >= 65184 /\ addr <= 65279 -> "Prohibited"
    [] addr >= 65280 /\ addr <= 65407 -> "IORegs"
    [] addr >= 65408 /\ addr <= 65534 -> "HighRam"
    [] OTHER -> "InterruptEnableReg"

\* MemController::new: no boot image built in, a cartridge without RAM.
\* vram_open and oam_open are the two flags the PPU assigns.
MemNew ==
  [cells |-> EmptyCells, boot |-> EmptyCells, interrupts_enabled |-> 0,
   io_registers |-> IoRegsNew, ram_size |-> 0,
   vram_open |-> TRUE, oam_open |-> TRUE]

\* The result of a read: rd.st = "ok" and rd.v the byte, or the failure.
ReadOk(v) == [st |-> "ok", fault |-> NoFault, v |-> v]

ReadErr(kind, addr) == [st |-> "err", fault |-> Fault(kind, addr), v |-> 0]

ReadAbort(kind, addr) == [st |-> "panic", fault |-> Fault(kind, addr), v |-> 0]

\* NonBankingController::read
rom_read(m, addr) ==
  IF addr <= 32767 THEN ReadOk(CellGet(m.cells, addr))
  ELSE IF addr - 40960 < m.ram_size THEN ReadOk(CellGet(m.cells, addr))
  ELSE ReadErr("MemReadError", addr)

\* MemController::read8
read8(m, addr) ==
  LET In(region) ==
        CASE region = "BootRom" -> ReadOk(CellGet(m.boot, addr))
          [] region = "Cartridge" -> rom_read(m, addr)
          [] region \in {"VRam", "WorkRam", "HighRam"} -> ReadOk(CellGet(m.cells, addr))
          [] region \in {"EchoRam", "ObjectAttrMem", "Prohibited"} ->
               ReadAbort("unimplemented", addr)
          [] region = "IORegs" -> ReadOk(IoRegs_read(m.io_registers, addr))
          [] OTHER -> ReadOk(m.interrupts_enabled)
  IN  In(map_to_region(m, addr))

\* MemController::read16, in a build with the given overflow behaviour
read16(m, chk, addr) ==
  LET next == PlainAdd(16, addr, 1)
      Both(lo, hi) ==
        IF lo.st # "ok" THEN lo
        ELSE IF next.ovf /\ chk THEN ReadAbort("overflow_u16", addr)
        ELSE IF hi.st # "ok" THEN hi
        ELSE ReadOk(hi.v * 256 + lo.v)
  IN  Both(read8(m, addr), read8(m, next.v))

\* s after a failed read rd
Propagate(s, rd) ==
  IF s.st # "ok" THEN s ELSE [s EXCEPT !.st = rd.st, !.fault = rd.fault]

\* NonBankingController::write
rom_write(s, addr, val) ==
  IF addr <= 32767 THEN s
  ELSE IF addr - 40960 < s.mem.ram_size
       THEN [s EXCEPT !.mem.cells = CellPut(s.mem.cells, addr, val)]
  ELSE Fail(s, "MemWriteError", addr)

\* MemController::write8 that drops the writes to the I/O registers
write8_io_dropped(s, addr, val) ==
  LET In(region) ==
        CASE region = "BootRom" -> Fail(s, "MemWriteError", addr)
          [] region = "Cartridge" -> rom_write(s, addr, val)
          [] region \in {"VRam", "WorkRam", "HighRam"} ->
               [s EXCEPT !.mem.cells = CellPut(s.mem.cells, addr, val)]
          [] region \in {"EchoRam", "ObjectAttrMem", "Prohibited"} ->
               Abort(s, "unimplemented", addr)
          [] region = "IORegs" -> s
          [] OTHER -> [s EXCEPT !.mem.interrupts_enabled = val]
  IN  IF s.st # "ok" THEN s ELSE In(map_to_region(s.mem, addr))

\* MemController::write8
write8(s, addr, val) ==
  LET In(region) ==
        CASE region = "BootRom" -> Fail(s, "MemWriteError", addr)
          [] region = "Cartridge" -> rom_write(s, addr, val)
          [] region \in {"VRam", "WorkRam", "HighRam"} ->
               [s EXCEPT !.mem.cells = CellPut(s.mem.cells, addr, val)]
          [] region \in {"EchoRam", "ObjectAttrMem", "Prohibited"} ->
               Abort(s, "unimplemented", addr)
          [] region = "IORegs" ->
               [s EXCEPT !.mem.io_registers = IoRegs_write(s.mem.io_registers, addr, val)]
          [] OTHER -> [s EXCEPT !.mem.interrupts_enabled = val]
  IN  IF s.st # "ok" THEN s ELSE In(map_to_region(s.mem, addr))

\* MemController::write16
write16(s, addr, value) ==
  LET next == PlainAdd(16, addr, 1) IN
  write8(Checked(write8(s, addr, value % 256), next), next.v, value \div 256)

----------------------------------------------------------------------------
(* isa/: instructions and their operands                                    *)

\* An operand is a record of one shape: its kind k, a register or condition
\* name r, and a number n (an immediate, a bit index, a restart vector).
NoArg == [k |-> "None", r |-> "", n |-> 0]

R8(reg) == [k |-> "Reg8", r |-> reg, n |-> 0]

R16(reg) == [k |-> "Reg16", r |-> reg, n |-> 0]

Imm8 == [k |-> "Imm8", r |-> "", n |-> 0]

SImm8 == [k |-> "SImm8", r |-> "", n |-> 0]

Imm16 == [k |-> "Imm16", r |-> "", n |-> 0]

MemReg(reg) == [k |-> "MemReg", r |-> reg, n |-> 0]

HighMemReg(reg) == [k |-> "HighMemReg", r |-> reg, n |-> 0]

HighMemImm == [k |-> "HighMemImm", r |-> "", n |-> 0]

MemImm == [k |-> "MemImm", r |-> "", n |-> 0]

MemHL == [k |-> "MemHL", r |-> "", n |-> 0]

Cond(c) == [k |-> "Cond", r |-> c, n |-> 0]

BitN(b) == [k |-> "Bit", r |-> "", n |-> b]

Vec(v) == [k |-> "RsVec", r |-> "", n |-> v]

Lit(v) == [k |-> "Lit", r |-> "", n |-> v]

\* An instruction variant op with operands x and y; nb is the number of bytes
\* the decoder reads to build it.
Ins(op, x, y, nb) == [op |-> op, x |-> x, y |-> y, nb |-> nb]

\* decode(): the match on the opcode
MainTable ==
  <<
    Ins("Nop", NoArg, NoArg, 1),  \* 0x00
    Ins("Load16", R16("BC"), Imm16, 3),  \* 0x01
    Ins("Load8", MemReg("BC"), R8("A"), 1),  \* 0x02
    Ins("Inc", R16("BC"), NoArg, 1),  \* 0x03
    Ins("Inc", R8("B"), NoArg, 1),  \* 0x04
    Ins("Dec", R8("B"), NoArg, 1),  \* 0x05
    Ins("Load8", R8("B"), Imm8, 2),  \* 0x06
    Ins("RotLeftCircularA", NoArg, NoArg, 1),  \* 0x07
    Ins("Load16", MemImm, R16("SP"), 3),  \* 0x08
    Ins("AddHL", R16("BC"), NoArg, 1),  \* 0x09
    Ins("Load8", R8("A"), MemReg("BC"), 1),  \* 0x0A
    Ins("Dec", R16("BC"), NoArg, 1),  \* 0x0B
    Ins("Inc", R8("C"), NoArg, 1),  \* 0x0C
    Ins("Dec", R8("C"), NoArg, 1),  \* 0x0D
    Ins("Load8", R8("C"), Imm8, 2),  \* 0x0E
    Ins("RotRightCircularA", NoArg, NoArg, 1),  \* 0x0F
    Ins("Stop", Imm8, NoArg, 2),  \* 0x10
    Ins("Load16", R16("DE"), Imm16, 3),  \* 0x11
    Ins("Load8", MemReg("DE"), R8("A"), 1),  \* 0x12
    Ins("Inc", R16("DE"), NoArg, 1),  \* 0x13
    Ins("Inc", R8("D"), NoArg, 1),  \* 0x14
    Ins("Dec", R8("D"), NoArg, 1),  \* 0x15
    Ins("Load8", R8("D"), Imm8, 2),  \* 0x16
    Ins("RotLeftA", NoArg, NoArg, 1),  \* 0x17
    Ins("JumpRel", SImm8, NoArg, 2),  \* 0x18
    Ins("AddHL", R16("DE"), NoArg, 1),  \* 0x19
    Ins("Load8", R8("A"), MemReg("DE"), 1),  \* 0x1A
    Ins("Dec", R16("DE"), NoArg, 1),  \* 0x1B
    Ins("Inc", R8("E"), NoArg, 1),  \* 0x1C
    Ins("Dec", R8("E"), NoArg, 1),  \* 0x1D
    Ins("Load8", R8("E"), Imm8, 2),  \* 0x1E
    Ins("RotRightA", NoArg, NoArg, 1),  \* 0x1F
    Ins("JumpRelIf", SImm8, Cond("NotZero"), 2),  \* 0x20
    Ins("Load16", R16("HL"), Imm16, 3),  \* 0x21
    Ins("LoadAtoHLI", NoArg, NoArg, 1),  \* 0x22
    Ins("Inc", R16("HL"), NoArg, 1),  \* 0x23
    Ins("Inc", R8("H"), NoArg, 1),  \* 0x24
    Ins("Dec", R8("H"), NoArg, 1),  \* 0x25
    Ins("Load8", R8("H"), Imm8, 2),  \* 0x26
    Ins("DecimalAdjust", NoArg, NoArg, 1),  \* 0x27
    Ins("JumpRelIf", SImm8, Cond("Zero"), 2),  \* 0x28
    Ins("AddHL", R16("HL"), NoArg, 1),  \* 0x29
    Ins("LoadHLItoA", NoArg, NoArg, 1),  \* 0x2A
    Ins("Dec", R16("HL"), NoArg, 1),  \* 0x2B
    Ins("Inc", R8("L"), NoArg, 1),  \* 0x2C
    Ins("Dec", R8("L"), NoArg, 1),  \* 0x2D
    Ins("Load8", R8("L"), Imm8, 2),  \* 0x2E
    Ins("ComplementAccumulator", NoArg, NoArg, 1),  \* 0x2F
    Ins("JumpRelIf", SImm8, Cond("NotCarry"), 2),  \* 0x30
    Ins("Load16", R16("SP"), Imm16, 3),  \* 0x31
    Ins("LoadAtoHLD", NoArg, NoArg, 1),  \* 0x32
    Ins("Inc", R16("SP"), NoArg, 1),  \* 0x33
    Ins("Inc", MemHL, NoArg, 1),  \* 0x34
    Ins("Dec", MemHL, NoArg, 1),  \* 0x35
    Ins("Load8", MemReg("HL"), Imm8, 2),  \* 0x36
    Ins("SetCarryFlag", NoArg, NoArg, 1),  \* 0x37
    Ins("JumpRelIf", SImm8, Cond("Carry"), 2),  \* 0x38
    Ins("AddHL", R16("SP"), NoArg, 1),  \* 0x39
    Ins("LoadHLDtoA", NoArg, NoArg, 1),  \* 0x3A
    Ins("Dec", R16("SP"), NoArg, 1),  \* 0x3B
    Ins("Inc", R8("A"), NoArg, 1),  \* 0x3C
    Ins("Dec", R8("A"), NoArg, 1),  \* 0x3D
    Ins("Load8", R8("A"), Imm8, 2),  \* 0x3E
    Ins("ComplementCarry", NoArg, NoArg, 1),  \* 0x3F
    Ins("Load8", R8("B"), R8("B"), 1),  \* 0x40
    Ins("Load8", R8("B"), R8("C"), 1),  \* 0x41
    Ins("Load8", R8("B"), R8("D"), 1),  \* 0x42
    Ins("Load8", R8("B"), R8("E"), 1),  \* 0x43
    Ins("Load8", R8("B"), R8("H"), 1),  \* 0x44
    Ins("Load8", R8("B"), R8("L"), 1),  \* 0x45
    Ins("Load8", R8("B"), MemReg("HL"), 1),  \* 0x46
    Ins("Load8", R8("B"), R8("A"), 1),  \* 0x47
    Ins("Load8", R8("C"), R8("B"), 1),  \* 0x48
    Ins("Load8", R8("C"), R8("C"), 1),  \* 0x49
    Ins("Load8", R8("C"), R8("D"), 1),  \* 0x4A
    Ins("Load8", R8("C"), R8("E"), 1),  \* 0x4B
    Ins("Load8", R8("C"), R8("H"), 1),  \* 0x4C
    Ins("Load8", R8("C"), R8("L"), 1),  \* 0x4D
    Ins("Load8", R8("C"), MemReg("HL"), 1),  \* 0x4E
    Ins("Load8", R8("C"), R8("A"), 1),  \* 0x4F
    Ins("Load8", R8("D"), R8("B"), 1),  \* 0x50
    Ins("Load8", R8("D"), R8("C"), 1),  \* 0x51
    Ins("Load8", R8("D"), R8("D"), 1),  \* 0x52
    Ins("Load8", R8("D"), R8("E"), 1),  \* 0x53
    Ins("Load8", R8("D"), R8("H"), 1),  \* 0x54
    Ins("Load8", R8("D"), R8("L"), 1),  \* 0x55
    Ins("Load8", R8("D"), MemReg("HL"), 1),  \* 0x56
    Ins("Load8", R8("D"), R8("A"), 1),  \* 0x57
    Ins("Load8", R8("E"), R8("B"), 1),  \* 0x58
    Ins("Load8", R8("E"), R8("C"), 1),  \* 0x59
    Ins("Load8", R8("E"), R8("D"), 1),  \* 0x5A
    Ins("Load8", R8("E"), R8("E"), 1),  \* 0x5B
    Ins("Load8", R8("E"), R8("H"), 1),  \* 0x5C
    Ins("Load8", R8("E"), R8("L"), 1),  \* 0x5D
    Ins("Load8", R8("E"), MemReg("HL"), 1),  \* 0x5E
    Ins("Load8", R8("E"), R8("A"), 1),  \* 0x5F
    Ins("Load8", R8("H"), R8("B"), 1),  \* 0x60
    Ins("Load8", R8("H"), R8("C"), 1),  \* 0x61
    Ins("Load8", R8("H"), R8("D"), 1),  \* 0x62
    Ins("Load8", R8("H"), R8("E"), 1),  \* 0x63
    Ins("Load8", R8("H"), R8("H"), 1),  \* 0x64
    Ins("Load8", R8("H"), R8("L"), 1),  \* 0x65
    Ins("Load8", R8("H"), MemReg("HL"), 1),  \* 0x66
    Ins("Load8", R8("H"), R8("A"), 1),  \* 0x67
    Ins("Load8", R8("L"), R8("B"), 1),  \* 0x68
    Ins("Load8", R8("L"), R8("C"), 1),  \* 0x69
    Ins("Load8", R8("L"), R8("D"), 1),  \* 0x6A
    Ins("Load8", R8("L"), R8("E"), 1),  \* 0x6B
    Ins("Load8", R8("L"), R8("H"), 1),  \* 0x6C
    Ins("Load8", R8("L"), R8("L"), 1),  \* 0x6D
    Ins("Load8", R8("L"), MemReg("HL"), 1),  \* 0x6E
    Ins("Load8", R8("L"), R8("A"), 1),  \* 0x6F
    Ins("Load8", MemReg("HL"), R8("B"), 1),  \* 0x70
    Ins("Load8", MemReg("HL"), R8("C"), 1),  \* 0x71
    Ins("Load8", MemReg("HL"), R8("D"), 1),  \* 0x72
    Ins("Load8", MemReg("HL"), R8("E"), 1),  \* 0x73
    Ins("Load8", MemReg("HL"), R8("H"), 1),  \* 0x74
    Ins("Load8", MemReg("HL"), R8("L"), 1),  \* 0x75
    Ins("Halt", NoArg, NoArg, 1),  \* 0x76
    Ins("Load8", MemReg("HL"), R8("A"), 1),  \* 0x77
    Ins("Load8", R8("A"), R8("B"), 1),  \* 0x78
    Ins("Load8", R8("A"), R8("C"), 1),  \* 0x79
    Ins("Load8", R8("A"), R8("D"), 1),  \* 0x7A
    Ins("Load8", R8("A"), R8("E"), 1),  \* 0x7B
    Ins("Load8", R8("A"), R8("H"), 1),  \* 0x7C
    Ins("Load8", R8("A"), R8("L"), 1),  \* 0x7D
    Ins("Load8", R8("A"), MemReg("HL"), 1),  \* 0x7E
    Ins("Load8", R8("A"), R8("A"), 1),  \* 0x7F
    Ins("Add", R8("B"), NoArg, 1),  \* 0x80
    Ins("Add", R8("C"), NoArg, 1),  \* 0x81
    Ins("Add", R8("D"), NoArg, 1),  \* 0x82
    Ins("Add", R8("E"), NoArg, 1),  \* 0x83
    Ins("Add", R8("H"), NoArg, 1),  \* 0x84
    Ins("Add", R8("L"), NoArg, 1),  \* 0x85
    Ins("Add", MemReg("HL"), NoArg, 1),  \* 0x86
    Ins("Add", R8("A"), NoArg, 1),  \* 0x87
    Ins("AddCarry", R8("B"), NoArg, 1),  \* 0x88
    Ins("AddCarry", R8("C"), NoArg, 1),  \* 0x89
    Ins("AddCarry", R8("D"), NoArg, 1),  \* 0x8A
    Ins("AddCarry", R8("E"), NoArg, 1),  \* 0x8B
    Ins("AddCarry", R8("H"), NoArg, 1),  \* 0x8C
    Ins("AddCarry", R8("L"), NoArg, 1),  \* 0x8D
    Ins("AddCarry", MemReg("HL"), NoArg, 1),  \* 0x8E
    Ins("AddCarry", R8("A"), NoArg, 1),  \* 0x8F
    Ins("Sub", R8("B"), NoArg, 1),  \* 0x90
    Ins("Sub", R8("C"), NoArg, 1),  \* 0x91
    Ins("Sub", R8("D"), NoArg, 1),  \* 0x92
    Ins("Sub", R8("E"), NoArg, 1),  \* 0x93
    Ins("Sub", R8("H"), NoArg, 1),  \* 0x94
    Ins("Sub", R8("L"), NoArg, 1),  \* 0x95
    Ins("Sub", MemReg("HL"), NoArg, 1),  \* 0x96
    Ins("Sub", R8("A"), NoArg, 1),  \* 0x97
    Ins("SubCarry", R8("B"), NoArg, 1),  \* 0x98
    Ins("SubCarry", R8("C"), NoArg, 1),  \* 0x99
    Ins("SubCarry", R8("D"), NoArg, 1),  \* 0x9A
    Ins("SubCarry", R8("E"), NoArg, 1),  \* 0x9B
    Ins("SubCarry", R8("H"), NoArg, 1),  \* 0x9C
    Ins("SubCarry", R8("L"), NoArg, 1),  \* 0x9D
    Ins("SubCarry", MemReg("HL"), NoArg, 1),  \* 0x9E
    Ins("SubCarry", R8("A"), NoArg, 1),  \* 0x9F
    Ins("And", R8("B"), NoArg, 1),  \* 0xA0
    Ins("And", R8("C"), NoArg, 1),  \* 0xA1
    Ins("And", R8("D"), NoArg, 1),  \* 0xA2
    Ins("And", R8("E"), NoArg, 1),  \* 0xA3
    Ins("And", R8("H"), NoArg, 1),  \* 0xA4
    Ins("And", R8("L"), NoArg, 1),  \* 0xA5
    Ins("And", MemReg("HL"), NoArg, 1),  \* 0xA6
    Ins("And", R8("A"), NoArg, 1),  \* 0xA7
    Ins("Xor", R8("B"), NoArg, 1),  \* 0xA8
    Ins("Xor", R8("C"), NoArg, 1),  \* 0xA9
    Ins("Xor", R8("D"), NoArg, 1),  \* 0xAA
    Ins("Xor", R8("E"), NoArg, 1),  \* 0xAB
    Ins("Xor", R8("H"), NoArg, 1),  \* 0xAC
    Ins("Xor", R8("L"), NoArg, 1),  \* 0xAD
    Ins("Xor", MemReg("HL"), NoArg, 1),  \* 0xAE
    Ins("Xor", R8("A"), NoArg, 1),  \* 0xAF
    Ins("Or", R8("B"), NoArg, 1),  \* 0xB0
    Ins("Or", R8("C"), NoArg, 1),  \* 0xB1
    Ins("Or", R8("D"), NoArg, 1),  \* 0xB2
    Ins("Or", R8("E"), NoArg, 1),  \* 0xB3
    Ins("Or", R8("H"), NoArg, 1),  \* 0xB4
    Ins("Or", R8("L"), NoArg, 1),  \* 0xB5
    Ins("Or", MemReg("HL"), NoArg, 1),  \* 0xB6
    Ins("Or", R8("A"), NoArg, 1),  \* 0xB7
    Ins("Cmp", R8("B"), NoArg, 1),  \* 0xB8
    Ins("Cmp", R8("C"), NoArg, 1),  \* 0xB9
    Ins("Cmp", R8("D"), NoArg, 1),  \* 0xBA
    Ins("Cmp", R8("E"), NoArg, 1),  \* 0xBB
    Ins("Cmp", R8("H"), NoArg, 1),  \* 0xBC
    Ins("Cmp", R8("L"), NoArg, 1),  \* 0xBD
    Ins("Cmp", MemReg("HL"), NoArg, 1),  \* 0xBE
    Ins("Cmp", R8("A"), NoArg, 1),  \* 0xBF
    Ins("RetIf", Cond("NotZero"), NoArg, 1),  \* 0xC0
    Ins("Pop", R16("BC"), NoArg, 1),  \* 0xC1
    Ins("JumpIf", Imm16, Cond("NotZero"), 3),  \* 0xC2
    Ins("Jump", Imm16, NoArg, 3),  \* 0xC3
    Ins("CallIf", Imm16, Cond("NotZero"), 3),  \* 0xC4
    Ins("Push", R16("BC"), NoArg, 1),  \* 0xC5
    Ins("Add", Imm8, NoArg, 2),  \* 0xC6
    Ins("Rst", Vec(0), NoArg, 1),  \* 0xC7
    Ins("RetIf", Cond("Zero"), NoArg, 1),  \* 0xC8
    Ins("Ret", NoArg, NoArg, 1),  \* 0xC9
    Ins("JumpIf", Imm16, Cond("Zero"), 3),  \* 0xCA
    Ins("Prefixed", NoArg, NoArg, 2),  \* 0xCB
    Ins("CallIf", Imm16, Cond("Zero"), 3),  \* 0xCC
    Ins("Call", Imm16, NoArg, 3),  \* 0xCD
    Ins("AddCarry", Imm8, NoArg, 2),  \* 0xCE
    Ins("Rst", Vec(8), NoArg, 1),  \* 0xCF
    Ins("RetIf", Cond("NotCarry"), NoArg, 1),  \* 0xD0
    Ins("Pop", R16("DE"), NoArg, 1),  \* 0xD1
    Ins("JumpIf", Imm16, Cond("NotCarry"), 3),  \* 0xD2
    Ins("IllegalInstruction", Lit(211), NoArg, 1),  \* 0xD3
    Ins("CallIf", Imm16, Cond("NotCarry"), 3),  \* 0xD4
    Ins("Push", R16("DE"), NoArg, 1),  \* 0xD5
    Ins("Sub", Imm8, NoArg, 2),  \* 0xD6
    Ins("Rst", Vec(16), NoArg, 1),  \* 0xD7
    Ins("RetIf", Cond("Carry"), NoArg, 1),  \* 0xD8
    Ins("Reti", NoArg, NoArg, 1),  \* 0xD9
    Ins("JumpIf", Imm16, Cond("Carry"), 3),  \* 0xDA
    Ins("IllegalInstruction", Lit(219), NoArg, 1),  \* 0xDB
    Ins("CallIf", Imm16, Cond("Carry"), 3),  \* 0xDC
    Ins("IllegalInstruction", Lit(221), NoArg, 1),  \* 0xDD
    Ins("SubCarry", Imm8, NoArg, 2),  \* 0xDE
    Ins("Rst", Vec(24), NoArg, 1),  \* 0xDF
    Ins("Load8", HighMemImm, R8("A"), 2),  \* 0xE0
    Ins("Pop", R16("HL"), NoArg, 1),  \* 0xE1
    Ins("Load8", HighMemReg("C"), R8("A"), 1),  \* 0xE2
    Ins("IllegalInstruction", Lit(227), NoArg, 1),  \* 0xE3
    Ins("IllegalInstruction", Lit(228), NoArg, 1),  \* 0xE4
    Ins("Push", R16("HL"), NoArg, 1),  \* 0xE5
    Ins("And", Imm8, NoArg, 2),  \* 0xE6
    Ins("Rst", Vec(32), NoArg, 1),  \* 0xE7
    Ins("AddSP", SImm8, NoArg, 2),  \* 0xE8
    Ins("JumpHL", NoArg, NoArg, 1),  \* 0xE9
    Ins("Load8", MemImm, R8("A"), 3),  \* 0xEA
    Ins("IllegalInstruction", Lit(235), NoArg, 1),  \* 0xEB
    Ins("IllegalInstruction", Lit(236), NoArg, 1),  \* 0xEC
    Ins("IllegalInstruction", Lit(237), NoArg, 1),  \* 0xED
    Ins("Xor", Imm8, NoArg, 2),  \* 0xEE
    Ins("Rst", Vec(40), NoArg, 1),  \* 0xEF
    Ins("Load8", R8("A"), HighMemImm, 2),  \* 0xF0
    Ins("Pop", R16("AF"), NoArg, 1),  \* 0xF1
    Ins("Load8", R8("A"), HighMemReg("C"), 1),  \* 0xF2
    Ins("DI", NoArg, NoArg, 1),  \* 0xF3
    Ins("IllegalInstruction", Lit(244), NoArg, 1),  \* 0xF4
    Ins("Push", R16("AF"), NoArg, 1),  \* 0xF5
    Ins("Or", Imm8, NoArg, 2),  \* 0xF6
    Ins("Rst", Vec(48), NoArg, 1),  \* 0xF7
    Ins("LoadSPi8toHL", SImm8, NoArg, 2),  \* 0xF8
    Ins("Load16", R16("SP"), R16("HL"), 1),  \* 0xF9
    Ins("Load8", R8("A"), MemImm, 3),  \* 0xFA
    Ins("EI", NoArg, NoArg, 1),  \* 0xFB
    Ins("IllegalInstruction", Lit(252), NoArg, 1),  \* 0xFC
    Ins("IllegalInstruction", Lit(253), NoArg, 1),  \* 0xFD
    Ins("Cmp", Imm8, NoArg, 2),  \* 0xFE
    Ins("Rst", Vec(56), NoArg, 1)  \* 0xFF
  >>

\* decode_prefixed(): the match on the byte after 0xCB
PrefixedTable ==
  <<
    Ins("RotLeftCircular", R8("B"), NoArg, 2),  \* 0x00
    Ins("RotLeftCircular", R8("C"), NoArg, 2),  \* 0x01
    Ins("RotLeftCircular", R8("D"), NoArg, 2),  \* 0x02
    Ins("RotLeftCircular", R8("E"), NoArg, 2),  \* 0x03
    Ins("RotLeftCircular", R8("H"), NoArg, 2),  \* 0x04
    Ins("RotLeftCircular", R8("L"), NoArg, 2),  \* 0x05
    Ins("RotLeftCircular", MemHL, NoArg, 2),  \* 0x06
    Ins("RotLeftCircular", R8("A"), NoArg, 2),  \* 0x07
    Ins("RotRightCircular", R8("B"), NoArg, 2),  \* 0x08
    Ins("RotRightCircular", R8("C"), NoArg, 2),  \* 0x09
    Ins("RotRightCircular", R8("D"), NoArg, 2),  \* 0x0A
    Ins("RotRightCircular", R8("E"), NoArg, 2),  \* 0x0B
    Ins("RotRightCircular", R8("H"), NoArg, 2),  \* 0x0C
    Ins("RotRightCircular", R8("L"), NoArg, 2),  \* 0x0D
    Ins("RotRightCircular", MemHL, NoArg, 2),  \* 0x0E
    Ins("RotRightCircular", R8("A"), NoArg, 2),  \* 0x0F
    Ins("RotLeft", R8("B"), NoArg, 2),  \* 0x10
    Ins("RotLeft", R8("C"), NoArg, 2),  \* 0x11
    Ins("RotLeft", R8("D"), NoArg, 2),  \* 0x12
    Ins("RotLeft", R8("E"), NoArg, 2),  \* 0x13
    Ins("RotLeft", R8("H"), NoArg, 2),  \* 0x14
    Ins("RotLeft", R8("L"), NoArg, 2),  \* 0x15
    Ins("RotLeft", MemHL, NoArg, 2),  \* 0x16
    Ins("RotLeft", R8("A"), NoArg, 2),  \* 0x17
    Ins("RotRight", R8("B"), NoArg, 2),  \* 0x18
    Ins("RotRight", R8("C"), NoArg, 2),  \* 0x19
    Ins("RotRight", R8("D"), NoArg, 2),  \* 0x1A
    Ins("RotRight", R8("E"), NoArg, 2),  \* 0x1B
    Ins("RotRight", R8("H"), NoArg, 2),  \* 0x1C
    Ins("RotRight", R8("L"), NoArg, 2),  \* 0x1D
    Ins("RotRight", MemHL, NoArg, 2),  \* 0x1E
    Ins("RotRight", R8("A"), NoArg, 2),  \* 0x1F
    Ins("ShiftLeftArith", R8("B"), NoArg, 2),  \* 0x20
    Ins("ShiftLeftArith", R8("C"), NoArg, 2),  \* 0x21
    Ins("ShiftLeftArith", R8("D"), NoArg, 2),  \* 0x22
    Ins("ShiftLeftArith", R8("E"), NoArg, 2),  \* 0x23
    Ins("ShiftLeftArith", R8("H"), NoArg, 2),  \* 0x24
    Ins("ShiftLeftArith", R8("L"), NoArg, 2),  \* 0x25
    Ins("ShiftLeftArith", MemHL, NoArg, 2),  \* 0x26
    Ins("ShiftLeftArith", R8("A"), NoArg, 2),  \* 0x27
    Ins("ShiftRightArith", R8("B"), NoArg, 2),  \* 0x28
    Ins("ShiftRightArith", R8("C"), NoArg, 2),  \* 0x29
    Ins("ShiftRightArith", R8("D"), NoArg, 2),  \* 0x2A
    Ins("ShiftRightArith", R8("E"), NoArg, 2),  \* 0x2B
    Ins("ShiftRightArith", R8("H"), NoArg, 2),  \* 0x2C
    Ins("ShiftRightArith", R8("L"), NoArg, 2),  \* 0x2D
    Ins("ShiftRightArith", MemHL, NoArg, 2),  \* 0x2E
    Ins("ShiftRightArith", R8("A"), NoArg, 2),  \* 0x2F
    Ins("Swap", R8("B"), NoArg, 2),  \* 0x30
    Ins("Swap", R8("C"), NoArg, 2),  \* 0x31
    Ins("Swap", R8("D"), NoArg, 2),  \* 0x32
    Ins("Swap", R8("E"), NoArg, 2),  \* 0x33
    Ins("Swap", R8("H"), NoArg, 2),  \* 0x34
    Ins("Swap", R8("L"), NoArg, 2),  \* 0x35
    Ins("Swap", MemHL, NoArg, 2),  \* 0x36
    Ins("Swap", R8("A"), NoArg, 2),  \* 0x37
    Ins("ShiftRightLogic", R8("B"), NoArg, 2),  \* 0x38
    Ins("ShiftRightLogic", R8("C"), NoArg, 2),  \* 0x39
    Ins("ShiftRightLogic", R8("D"), NoArg, 2),  \* 0x3A
    Ins("ShiftRightLogic", R8("E"), NoArg, 2),  \* 0x3B
    Ins("ShiftRightLogic", R8("H"), NoArg, 2),  \* 0x3C
    Ins("ShiftRightLogic", R8("L"), NoArg, 2),  \* 0x3D
    Ins("ShiftRightLogic", MemHL, NoArg, 2),  \* 0x3E
    Ins("ShiftRightLogic", R8("A"), NoArg, 2),  \* 0x3F
    Ins("Bit", BitN(0), R8("B"), 2),  \* 0x40
    Ins("Bit", BitN(0), R8("C"), 2),  \* 0x41
    Ins("Bit", BitN(0), R8("D"), 2),  \* 0x42
    Ins("Bit", BitN(0), R8("E"), 2),  \* 0x43
    Ins("Bit", BitN(0), R8("H"), 2),  \* 0x44
    Ins("Bit", BitN(0), R8("L"), 2),  \* 0x45
    Ins("Bit", BitN(0), MemHL, 2),  \* 0x46
    Ins("Bit", BitN(0), R8("A"), 2),  \* 0x47
    Ins("Bit", BitN(1), R8("B"), 2),  \* 0x48
    Ins("Bit", BitN(1), R8("C"), 2),  \* 0x49
    Ins("Bit", BitN(1), R8("D"), 2),  \* 0x4A
    Ins("Bit", BitN(1), R8("E"), 2),  \* 0x4B
    Ins("Bit", BitN(1), R8("H"), 2),  \* 0x4C
    Ins("Bit", BitN(1), R8("L"), 2),  \* 0x4D
    Ins("Bit", BitN(1), MemHL, 2),  \* 0x4E
    Ins("Bit", BitN(1), R8("A"), 2),  \* 0x4F
    Ins("Bit", BitN(2), R8("B"), 2),  \* 0x50
    Ins("Bit", BitN(2), R8("C"), 2),  \* 0x51
    Ins("Bit", BitN(2), R8("D"), 2),  \* 0x52
    Ins("Bit", BitN(2), R8("E"), 2),  \* 0x53
    Ins("Bit", BitN(2), R8("H"), 2),  \* 0x54
    Ins("Bit", BitN(2), R8("L"), 2),  \* 0x55
    Ins("Bit", BitN(2), MemHL, 2),  \* 0x56
    Ins("Bit", BitN(2), R8("A"), 2),  \* 0x57
    Ins("Bit", BitN(3), R8("B"), 2),  \* 0x58
    Ins("Bit", BitN(3), R8("C"), 2),  \* 0x59
    Ins("Bit", BitN(3), R8("D"), 2),  \* 0x5A
    Ins("Bit", BitN(3), R8("E"), 2),  \* 0x5B
    Ins("Bit", BitN(3), R8("H"), 2),  \* 0x5C
    Ins("Bit", BitN(3), R8("L"), 2),  \* 0x5D
    Ins("Bit", BitN(3), MemHL, 2),  \* 0x5E
    Ins("Bit", BitN(3), R8("A"), 2),  \* 0x5F
    Ins("Bit", BitN(4), R8("B"), 2),  \* 0x60
    Ins("Bit", BitN(4), R8("C"), 2),  \* 0x61
    Ins("Bit", BitN(4), R8("D"), 2),  \* 0x62
    Ins("Bit", BitN(4), R8("E"), 2),  \* 0x63
    Ins("Bit", BitN(4), R8("H"), 2),  \* 0x64
    Ins("Bit", BitN(4), R8("L"), 2),  \* 0x65
    Ins("Bit", BitN(4), MemHL, 2),  \* 0x66
    Ins("Bit", BitN(4), R8("A"), 2),  \* 0x67
    Ins("Bit", BitN(5), R8("B"), 2),  \* 0x68
    Ins("Bit", BitN(5), R8("C"), 2),  \* 0x69
    Ins("Bit", BitN(5), R8("D"), 2),  \* 0x6A
    Ins("Bit", BitN(5), R8("E"), 2),  \* 0x6B
    Ins("Bit", BitN(5), R8("H"), 2),  \* 0x6C
    Ins("Bit", BitN(5), R8("L"), 2),  \* 0x6D
    Ins("Bit", BitN(5), MemHL, 2),  \* 0x6E
    Ins("Bit", BitN(5), R8("A"), 2),  \* 0x6F
    Ins("Bit", BitN(6), R8("B"), 2),  \* 0x70
    Ins("Bit", BitN(6), R8("C"), 2),  \* 0x71
    Ins("Bit", BitN(6), R8("D"), 2),  \* 0x72
    Ins("Bit", BitN(6), R8("E"), 2),  \* 0x73
    Ins("Bit", BitN(6), R8("H"), 2),  \* 0x74
    Ins("Bit", BitN(6), R8("L"), 2),  \* 0x75
    Ins("Bit", BitN(6), MemHL, 2),  \* 0x76
    Ins("Bit", BitN(6), R8("A"), 2),  \* 0x77
    Ins("Bit", BitN(7), R8("B"), 2),  \* 0x78
    Ins("Bit", BitN(7), R8("C"), 2),  \* 0x79
    Ins("Bit", BitN(7), R8("D"), 2),  \* 0x7A
    Ins("Bit", BitN(7), R8("E"), 2),  \* 0x7B
    Ins("Bit", BitN(7), R8("H"), 2),  \* 0x7C
    Ins("Bit", BitN(7), R8("L"), 2),  \* 0x7D
    Ins("Bit", BitN(7), MemHL, 2),  \* 0x7E
    Ins("Bit", BitN(7), R8("A"), 2),  \* 0x7F
    Ins("Res", BitN(0), R8("B"), 2),  \* 0x80
    Ins("Res", BitN(0), R8("C"), 2),  \* 0x81
    Ins("Res", BitN(0), R8("D"), 2),  \* 0x82
    Ins("Res", BitN(0), R8("E"), 2),  \* 0x83
    Ins("Res", BitN(0), R8("H"), 2),  \* 0x84
    Ins("Res", BitN(0), R8("L"), 2),  \* 0x85
    Ins("Res", BitN(0), MemHL, 2),  \* 0x86
    Ins("Res", BitN(0), R8("A"), 2),  \* 0x87
    Ins("Res", BitN(1), R8("B"), 2),  \* 0x88
    Ins("Res", BitN(1), R8("C"), 2),  \* 0x89
    Ins("Res", BitN(1), R8("D"), 2),  \* 0x8A
    Ins("Res", BitN(1), R8("E"), 2),  \* 0x8B
    Ins("Res", BitN(1), R8("H"), 2),  \* 0x8C
    Ins("Res", BitN(1), R8("L"), 2),  \* 0x8D
    Ins("Res", BitN(1), MemHL, 2),  \* 0x8E
    Ins("Res", BitN(1), R8("A"), 2),  \* 0x8F
    Ins("Res", BitN(2), R8("B"), 2),  \* 0x90
    Ins("Res", BitN(2), R8("C"), 2),  \* 0x91
    Ins("Res", BitN(2), R8("D"), 2),  \* 0x92
    Ins("Res", BitN(2), R8("E"), 2),  \* 0x93
    Ins("Res", BitN(2), R8("H"), 2),  \* 0x94
    Ins("Res", BitN(2), R8("L"), 2),  \* 0x95
    Ins("Res", BitN(2), MemHL, 2),  \* 0x96
    Ins("Res", BitN(2), R8("A"), 2),  \* 0x97
    Ins("Res", BitN(3), R8("B"), 2),  \* 0x98
    Ins("Res", BitN(3), R8("C"), 2),  \* 0x99
    Ins("Res", BitN(3), R8("D"), 2),  \* 0x9A
    Ins("Res", BitN(3), R8("E"), 2),  \* 0x9B
    Ins("Res", BitN(3), R8("H"), 2),  \* 0x9C
    Ins("Res", BitN(3), R8("L"), 2),  \* 0x9D
    Ins("Res", BitN(3), MemHL, 2),  \* 0x9E
    Ins("Res", BitN(3), R8("A"), 2),  \* 0x9F
    Ins("Res", BitN(4), R8("B"), 2),  \* 0xA0
    Ins("Res", BitN(4), R8("C"), 2),  \* 0xA1
    Ins("Res", BitN(4), R8("D"), 2),  \* 0xA2
    Ins("Res", BitN(4), R8("E"), 2),  \* 0xA3
    Ins("Res", BitN(4), R8("H"), 2),  \* 0xA4
    Ins("Res", BitN(4), R8("L"), 2),  \* 0xA5
    Ins("Res", BitN(4), MemHL, 2),  \* 0xA6
    Ins("Res", BitN(4), R8("A"), 2),  \* 0xA7
    Ins("Res", BitN(5), R8("B"), 2),  \* 0xA8
    Ins("Res", BitN(5), R8("C"), 2),  \* 0xA9
    Ins("Res", BitN(5), R8("D"), 2),  \* 0xAA
    Ins("Res", BitN(5), R8("E"), 2),  \* 0xAB
    Ins("Res", BitN(5), R8("H"), 2),  \* 0xAC
    Ins("Res", BitN(5), R8("L"), 2),  \* 0xAD
    Ins("Res", BitN(5), MemHL, 2),  \* 0xAE
    Ins("Res", BitN(5), R8("A"), 2),  \* 0xAF
    Ins("Res", BitN(6), R8("B"), 2),  \* 0xB0
    Ins("Res", BitN(6), R8("C"), 2),  \* 0xB1
    Ins("Res", BitN(6), R8("D"), 2),  \* 0xB2
    Ins("Res", BitN(6), R8("E"), 2),  \* 0xB3
    Ins("Res", BitN(6), R8("H"), 2),  \* 0xB4
    Ins("Res", BitN(6), R8("L"), 2),  \* 0xB5
    Ins("Res", BitN(6), MemHL, 2),  \* 0xB6
    Ins("Res", BitN(6), R8("A"), 2),  \* 0xB7
    Ins("Res", BitN(7), R8("B"), 2),  \* 0xB8
    Ins("Res", BitN(7), R8("C"), 2),  \* 0xB9
    Ins("Res", BitN(7), R8("D"), 2),  \* 0xBA
    Ins("Res", BitN(7), R8("E"), 2),  \* 0xBB
    Ins("Res", BitN(7), R8("H"), 2),  \* 0xBC
    Ins("Res", BitN(7), R8("L"), 2),  \* 0xBD
    Ins("Res", BitN(7), MemHL, 2),  \* 0xBE
    Ins("Res", BitN(7), R8("A"), 2),  \* 0xBF
    Ins("Set", BitN(0), R8("B"), 2),  \* 0xC0
    Ins("Set", BitN(0), R8("C"), 2),  \* 0xC1
    Ins("Set", BitN(0), R8("D"), 2),  \* 0xC2
    Ins("Set", BitN(0), R8("E"), 2),  \* 0xC3
    Ins("Set", BitN(0), R8("H"), 2),  \* 0xC4
    Ins("Set", BitN(0), R8("L"), 2),  \* 0xC5
    Ins("Set", BitN(0), MemHL, 2),  \* 0xC6
    Ins("Set", BitN(0), R8("A"), 2),  \* 0xC7
    Ins("Set", BitN(1), R8("B"), 2),  \* 0xC8
    Ins("Set", BitN(1), R8("C"), 2),  \* 0xC9
    Ins("Set", BitN(1), R8("D"), 2),  \* 0xCA
    Ins("Set", BitN(1), R8("E"), 2),  \* 0xCB
    Ins("Set", BitN(1), R8("H"), 2),  \* 0xCC
    Ins("Set", BitN(1), R8("L"), 2),  \* 0xCD
    Ins("Set", BitN(1), MemHL, 2),  \* 0xCE
    Ins("Set", BitN(1), R8("A"), 2),  \* 0xCF
    Ins("Set", BitN(2), R8("B"), 2),  \* 0xD0
    Ins("Set", BitN(2), R8("C"), 2),  \* 0xD1
    Ins("Set", BitN(2), R8("D"), 2),  \* 0xD2
    Ins("Set", BitN(2), R8("E"), 2),  \* 0xD3
    Ins("Set", BitN(2), R8("H"), 2),  \* 0xD4
    Ins("Set", BitN(2), R8("L"), 2),  \* 0xD5
    Ins("Set", BitN(2), MemHL, 2),  \* 0xD6
    Ins("Set", BitN(2), R8("A"), 2),  \* 0xD7
    Ins("Set", BitN(3), R8("B"), 2),  \* 0xD8
    Ins("Set", BitN(3), R8("C"), 2),  \* 0xD9
    Ins("Set", BitN(3), R8("D"), 2),  \* 0xDA
    Ins("Set", BitN(3), R8("E"), 2),  \* 0xDB
    Ins("Set", BitN(3), R8("H"), 2),  \* 0xDC
    Ins("Set", BitN(3), R8("L"), 2),  \* 0xDD
    Ins("Set", BitN(3), MemHL, 2),  \* 0xDE
    Ins("Set", BitN(3), R8("A"), 2),  \* 0xDF
    Ins("Set", BitN(4), R8("B"), 2),  \* 0xE0
    Ins("Set", BitN(4), R8("C"), 2),  \* 0xE1
    Ins("Set", BitN(4), R8("D"), 2),  \* 0xE2
    Ins("Set", BitN(4), R8("E"), 2),  \* 0xE3
    Ins("Set", BitN(4), R8("H"), 2),  \* 0xE4
    Ins("Set", BitN(4), R8("L"), 2),  \* 0xE5
    Ins("Set", BitN(4), MemHL, 2),  \* 0xE6
    Ins("Set", BitN(4), R8("A"), 2),  \* 0xE7
    Ins("Set", BitN(5), R8("B"), 2),  \* 0xE8
    Ins("Set", BitN(5), R8("C"), 2),  \* 0xE9
    Ins("Set", BitN(5), R8("D"), 2),  \* 0xEA
    Ins("Set", BitN(5), R8("E"), 2),  \* 0xEB
    Ins("Set", BitN(5), R8("H"), 2),  \* 0xEC
    Ins("Set", BitN(5), R8("L"), 2),  \* 0xED
    Ins("Set", BitN(5), MemHL, 2),  \* 0xEE
    Ins("Set", BitN(5), R8("A"), 2),  \* 0xEF
    Ins("Set", BitN(6), R8("B"), 2),  \* 0xF0
    Ins("Set", BitN(6), R8("C"), 2),  \* 0xF1
    Ins("Set", BitN(6), R8("D"), 2),  \* 0xF2
    Ins("Set", BitN(6), R8("E"), 2),  \* 0xF3
    Ins("Set", BitN(6), R8("H"), 2),  \* 0xF4
    Ins("Set", BitN(6), R8("L"), 2),  \* 0xF5
    Ins("Set", BitN(6), MemHL, 2),  \* 0xF6
    Ins("Set", BitN(6), R8("A"), 2),  \* 0xF7
    Ins("Set", BitN(7), R8("B"), 2),  \* 0xF8
    Ins("Set", BitN(7), R8("C"), 2),  \* 0xF9
    Ins("Set", BitN(7), R8("D"), 2),  \* 0xFA
    Ins("Set", BitN(7), R8("E"), 2),  \* 0xFB
    Ins("Set", BitN(7), R8("H"), 2),  \* 0xFC
    Ins("Set", BitN(7), R8("L"), 2),  \* 0xFD
    Ins("Set", BitN(7), MemHL, 2),  \* 0xFE
    Ins("Set", BitN(7), R8("A"), 2)  \* 0xFF
  >>

\* The operand with the immediate the decoder read put in
WithImm(o, val) ==
  CASE o.k \in {"Imm8", "Imm16", "HighMemImm", "MemImm"} -> [o EXCEPT !.n = val]
    [] o.k = "SImm8" -> [o EXCEPT !.n = AsI8(val)]
    [] OTHER -> o

FillImm(e, val) == [e EXCEPT !.x = WithImm(e.x, val), !.y = WithImm(e.y, val)]

decode_prefixed(opcode) == PrefixedTable[opcode + 1]

\* The result of a decode: d.st = "ok" and d.instr, or the failure.
DecodeOk(instr) == [st |-> "ok", fault |-> NoFault, instr |-> instr]

DecodeFailed(rd) ==
  [st |-> rd.st,
   fault |-> IF rd.st = "err" THEN Fault("Decode", rd.fault.code) ELSE rd.fault,
   instr |-> Ins("Nop", NoArg, NoArg, 1)]

\* decoder::read16 over the memory controller
decoder_read16(m, chk, idx) == read16(m, chk, idx)

\* decoder::decode over the memory controller, at address pc
decode(m, chk, pc) ==
  LET pc1 == PlainAdd(16, pc, 1)
      One(e, b1) ==
        IF b1.st # "ok" THEN DecodeFailed(b1)
        ELSE IF e.op = "Prefixed" THEN DecodeOk(decode_prefixed(b1.v))
        ELSE DecodeOk(FillImm(e, b1.v))
      Two(e, w1) ==
        IF w1.st # "ok" THEN DecodeFailed(w1) ELSE DecodeOk(FillImm(e, w1.v))
      Entry(e) ==
        IF e.nb = 1 THEN DecodeOk(e)
        ELSE IF pc1.ovf /\ chk THEN DecodeFailed(ReadAbort("overflow_u16", pc))
        ELSE IF e.nb = 2 THEN One(e, read8(m, pc1.v))
        ELSE Two(e, decoder_read16(m, chk, pc1.v))
      Opcode(rd) ==
        IF rd.st # "ok" THEN DecodeFailed(rd) ELSE Entry(MainTable[rd.v + 1])
  IN  Opcode(read8(m, pc))

----------------------------------------------------------------------------
(* isa/len.rs                                                               *)

\* op_size() with the opcode counted among the bytes of a 16-bit address
op_size_wide(o) ==
  CASE o.k \in {"Imm8", "HighMemImm"} -> 1
    [] o.k = "MemImm" -> 3
    [] OTHER -> 0

\* op_size() of ArithSrc, MemLoc, Ld8Src, Ld8Dst, Ld16Dst, IncDecTarget
op_size(o) ==
  CASE o.k \in {"Imm8", "HighMemImm"} -> 1
    [] o.k = "MemImm" -> 2
    [] OTHER -> 0

\* Ld16Src has no op_size of its own in len.rs; a 16-bit immediate is 2 bytes
op_size16(o) == IF o.k = "Imm16" THEN 2 ELSE op_size(o)

\* The rotations of A (0x07, 0x0F, 0x17, 0x1F) have no arm in len.rs:
\* a zero-operand instruction is one byte long.
len_rot_a == 1

len(i) ==
  CASE i.op \in {"Nop", "Halt", "EI"} -> 1
    [] i.op = "Stop" -> 2
    [] i.op = "DI" -> 2
    [] i.op \in {"Add", "AddCarry", "Sub", "SubCarry", "And", "Or", "Xor", "Cmp"} ->
         1 + op_size(i.x)
    [] i.op = "AddHL" -> 1
    [] i.op = "AddSP" -> 2
    [] i.op \in {"Inc", "Dec"} -> 1
    [] i.op \in {"RotLeftCircular", "RotRightCircular", "RotLeft", "RotRight",
                 "ShiftLeftArith", "ShiftRightArith", "Swap", "ShiftRightLogic",
                 "Bit", "Res", "Set"} -> 2
    [] i.op = "Load8" -> 1 + op_size(i.x) + op_size(i.y)
    [] i.op = "Load16" -> 1 + op_size(i.x) + op_size16(i.y)
    [] i.op \in {"LoadAtoHLI", "LoadAtoHLD", "LoadHLItoA", "LoadHLDtoA"} -> 1
    [] i.op = "LoadSPi8toHL" -> 2
    [] i.op \in {"Jump", "JumpIf", "Call", "CallIf"} -> 3
    [] i.op \in {"JumpRel", "JumpRelIf"} -> 2
    [] i.op \in {"JumpHL", "Ret", "Reti", "RetIf", "Pop", "Push", "DecimalAdjust",
                 "ComplementAccumulator", "SetCarryFlag", "ComplementCarry", "Rst"} -> 1
    [] OTHER -> len_rot_a

----------------------------------------------------------------------------
(* isa/cycles.rs                                                            *)

Static(c) == [taken |-> c, non_taken |-> c]

Branching(t, n) == [taken |-> t, non_taken |-> n]

arith_cycles(src) == IF src.k = "Reg8" THEN Static(4) ELSE Static(8)

pref_arith_short(tgt) == IF tgt.k = "Reg8" THEN Static(8) ELSE Static(12)

pref_arith_long(tgt) == IF tgt.k = "Reg8" THEN Static(8) ELSE Static(16)

IsMem(o) == o.k \in {"MemReg", "HighMemReg", "HighMemImm", "MemImm"}

cycles(i) ==
  CASE i.op \in {"Nop", "Stop", "Halt", "EI", "DI"} -> Static(4)
    [] i.op \in {"Add", "AddCarry", "Sub", "SubCarry", "And", "Or", "Xor", "Cmp"} ->
         arith_cycles(i.x)
    [] i.op = "AddHL" -> Static(8)
    [] i.op = "AddSP" -> Static(16)
    [] i.op \in {"Inc", "Dec"} ->
         (CASE i.x.k = "Reg8" -> Static(4)
            [] i.x.k = "Reg16" -> Static(8)
            [] OTHER -> Static(12))
    [] i.op \in {"RotLeftCircular", "RotRightCircular", "RotLeft", "RotRight",
                 "ShiftLeftArith", "ShiftRightArith", "Swap", "ShiftRightLogic"} ->
         pref_arith_long(i.x)
    [] i.op = "Bit" -> pref_arith_short(i.y)
    [] i.op \in {"Res", "Set"} -> pref_arith_long(i.y)
    [] i.op = "Load8" ->
         IF i.y.k = "MemImm" \/ i.x.k = "MemImm" THEN Static(16)
         ELSE IF i.x.k = "Reg8"
              THEN (IF i.y.k = "Reg8" THEN Static(4) ELSE Static(8))
         ELSE IF i.y.k = "Imm8" THEN Static(12)
         ELSE Static(8)
    [] i.op = "Load16" ->
         IF i.x.k = "MemImm" THEN Static(20)
         ELSE IF i.y.k = "Reg16" THEN Static(8) ELSE Static(12)
    [] i.op \in {"LoadAtoHLI", "LoadAtoHLD", "LoadHLItoA", "LoadHLDtoA"} -> Static(8)
    [] i.op = "LoadSPi8toHL" -> Static(12)
    [] i.op = "Jump" -> Static(16)
    [] i.op = "JumpRel" -> Static(12)
    [] i.op = "JumpHL" -> Static(4)
    [] i.op = "JumpIf" -> Branching(16, 12)
    [] i.op = "JumpRelIf" -> Branching(12, 8)
    [] i.op = "Call" -> Static(24)
    [] i.op = "CallIf" -> Branching(24, 12)
    [] i.op \in {"Ret", "Reti"} -> Static(16)
    [] i.op = "RetIf" -> Branching(20, 8)
    [] i.op = "Pop" -> Static(12)
    [] i.op = "Push" -> Static(16)
    [] i.op = "Rst" -> Static(16)
    [] OTHER -> Static(4)

----------------------------------------------------------------------------
(* cpu/mod.rs: helpers of the executor.  A CPU-and-memory state s is        *)
(*   [r, cycles_remaining, interrupts_master, ei_queued, mem,               *)
(*    overflow_checks, st, fault]                                           *)
(* where st/fault say whether the call in progress has already ended.       *)

\* Run the rest of a handler only if nothing has ended the call.
Then(s1, s2) == IF s1.st # "ok" THEN s1 ELSE s2

get_reg16_value(s, reg) ==
  CASE reg = "AF" -> af(s)
    [] reg = "BC" -> bc(s)
    [] reg = "DE" -> de(s)
    [] reg = "HL" -> hl(s)
    [] OTHER -> s.r.sp

get_reg8_value(s, reg) ==
  CASE reg = "A" -> s.r.a
    [] reg = "B" -> s.r.b
    [] reg = "C" -> s.r.c
    [] reg = "D" -> s.r.d
    [] reg = "E" -> s.r.e
    [] reg = "F" -> s.r.f
    [] reg = "H" -> s.r.h
    [] OTHER -> s.r.l

set_reg8_value(s, reg, val) ==
  CASE reg = "A" -> set_a(s, val)
    [] reg = "B" -> [s EXCEPT !.r.b = val]
    [] reg = "C" -> [s EXCEPT !.r.c = val]
    [] reg = "D" -> [s EXCEPT !.r.d = val]
    [] reg = "E" -> [s EXCEPT !.r.e = val]
    [] reg = "F" -> set_f(s, val)
    [] reg = "H" -> [s EXCEPT !.r.h = val]
    [] OTHER -> [s EXCEPT !.r.l = val]

set_reg16_value(s, reg, val) ==
  CASE reg = "AF" -> set_af(s, val)
    [] reg = "BC" -> set_bc(s, val)
    [] reg = "DE" -> set_de(s, val)
    [] reg = "HL" -> set_hl(s, val)
    [] OTHER -> set_sp(s, val)

memloc_to_addr(s, memloc) ==
  CASE memloc.k = "HighMemReg" -> 65280 + get_reg8_value(s, memloc.r)
    [] memloc.k = "MemReg" -> get_reg16_value(s, memloc.r)
    [] memloc.k = "HighMemImm" -> 65280 + memloc.n
    [] OTHER -> memloc.n

check_condition(s, cond) ==
  CASE cond.r = "Zero" -> zero_flag(s)
    [] cond.r = "NotZero" -> ~zero_flag(s)
    [] cond.r = "Carry" -> carry_flag(s)
    [] OTHER -> ~carry_flag(s)

\* u16::try_from(base as i32 + offset as i32).unwrap(), then set_pc
do_rel_jump(s, base, offset) ==
  LET jump_addr == base + offset IN
  IF jump_addr < 0 \/ jump_addr > 65535 THEN Abort(s, "unwrap", base)
  ELSE set_pc(s, jump_addr)

do_push16(s, val) ==
  LET new_sp == PlainSub(16, s.r.sp, 2)
      Store(s1) == Then(s1, write16(set_sp(s1, new_sp.v), new_sp.v, val))
  IN  Store(Checked(s, new_sp))

\* do_pop16 reads, then moves SP, and only then hands the read's result
\* (value or error) back: [s |-> state after, v |-> value popped].
do_pop16(s) ==
  LET new_sp == PlainAdd(16, s.r.sp, 2)
      Moved(s1) == Then(s1, set_sp(s1, new_sp.v))
      Popped(val, s2) ==
        IF val.st = "panic" THEN [s |-> Propagate(s, val), v |-> 0]
        ELSE IF val.st = "err" THEN [s |-> Then(s2, Propagate(s2, val)), v |-> 0]
        ELSE [s |-> s2, v |-> val.v]
  IN  Popped(read16(s.mem, s.overflow_checks, s.r.sp), Moved(Checked(s, new_sp)))

do_call(s, return_addr, call_addr) ==
  LET Jump(s1) == Then(s1, set_pc(s1, call_addr)) IN Jump(do_push16(s, return_addr))

get_arith_src(s, src) ==
  CASE src.k = "Reg8" -> ReadOk(get_reg8_value(s, src.r))
    [] src.k = "Imm8" -> ReadOk(src.n)
    [] OTHER -> read8(s.mem, memloc_to_addr(s, src))

get_prefarith_tgt(s, tgt) ==
  IF tgt.k = "Reg8" THEN ReadOk(get_reg8_value(s, tgt.r))
  ELSE read8(s.mem, hl(s))

set_prefarith_tgt(s, tgt, val) ==
  IF tgt.k = "Reg8" THEN set_reg8_value(s, tgt.r, val)
  ELSE write8(s, hl(s), val)

----------------------------------------------------------------------------
(* cpu/instructions/mod.rs: execute_instruction, one operator per arm       *)

ExecAdd(s, src) ==
  LET base == s.r.a
      With(rd) ==
        LET res == wrapping_add(8, base, rd.v) IN
        IF rd.st # "ok" THEN Propagate(s, rd)
        ELSE set_a(set_flags(s, res = 0, FALSE, halfcarry_add(8, base, rd.v),
                             base + rd.v > 255), res)
  IN  With(get_arith_src(s, src))

ExecAddCarry(s, src) ==
  LET base      == s.r.a
      cur_carry == IF carry_flag(s) THEN 1 ELSE 0
      Sum(rhs, s1) ==
        LET res == wrapping_add(8, base, rhs.v) IN
        Then(s1, set_a(set_flags(s1, res = 0, FALSE,
                                 halfcarry_add(8, base, rhs.v),
                                 base + rhs.v > 255), res))
      Rhs(rhs) == Sum(rhs, Checked(s, rhs))
      With(rd) ==
        IF rd.st # "ok" THEN Propagate(s, rd)
        ELSE Rhs(PlainAdd(8, rd.v, cur_carry))
  IN  With(get_arith_src(s, src))

ExecAddHL(s, reg) ==
  LET base == hl(s)
      val  == get_reg16_value(s, reg.r)
      res  == wrapping_add(16, base, val)
  IN  set_hl(set_flags(s, res = 0, FALSE, halfcarry_add(16, base, val),
                       base + val > 65535), res)

\* Sub stores the result in A, Cmp only sets the flags
ExecSub(s, src, store) ==
  LET base == s.r.a
      Flagged(res, s1) == IF store THEN set_a(s1, res) ELSE s1
      With(rd) ==
        LET res == wrapping_sub(8, base, rd.v) IN
        IF rd.st # "ok" THEN Propagate(s, rd)
        ELSE Flagged(res, set_flags(s, res = 0, TRUE, halfcarry_sub(8, base, rd.v),
                                    base < rd.v))
  IN  With(get_arith_src(s, src))

ExecAnd(s, src) ==
  LET Store(and) == set_a(set_flags(s, and = 0, FALSE, TRUE, FALSE), and)
      With(rd) == IF rd.st # "ok" THEN Propagate(s, rd) ELSE Store(BitAnd(rd.v, s.r.a))
  IN  With(get_arith_src(s, src))

ExecOr(s, src) ==
  LET Store(or) == set_a(set_flags(s, or = 0, FALSE, FALSE, FALSE), or)
      With(rd) == IF rd.st # "ok" THEN Propagate(s, rd) ELSE Store(BitOr(rd.v, s.r.a))
  IN  With(get_arith_src(s, src))

ExecXor(s, src) ==
  LET Store(xord) == set_flags(set_a(s, xord), xord = 0, FALSE, FALSE, FALSE)
      With(rd) == IF rd.st # "ok" THEN Propagate(s, rd) ELSE Store(BitXor(s.r.a, rd.v))
  IN  With(get_arith_src(s, src))

\* Inc (up = TRUE) and Dec (up = FALSE)
IncDecFlags(s, val, res, up) ==
  set_half_carry_flag(
    set_subtract_flag(set_zero_flag(s, res = 0), ~up),
    IF up THEN halfcarry_add(8, val, 1) ELSE halfcarry_sub(8, val, 1))

ExecIncDec(s, tgt, up) ==
  LET Step(w, v) == IF up THEN wrapping_add(w, v, 1) ELSE wrapping_sub(w, v, 1)
      addr == hl(s)
      Reg(v8, res) == set_reg8_value(IncDecFlags(s, v8, res, up), tgt.r, res)
      Mem(val, res) == write8(IncDecFlags(s, val, res, up), addr, res)
      Read(rd) ==
        IF rd.st # "ok" THEN Propagate(s, rd) ELSE Mem(rd.v, Step(8, rd.v))
  IN  CASE tgt.k = "Reg8" ->
             Reg(get_reg8_value(s, tgt.r), Step(8, get_reg8_value(s, tgt.r)))
        [] tgt.k = "Reg16" ->
             set_reg16_value(s, tgt.r, Step(16, get_reg16_value(s, tgt.r)))
        [] OTHER -> Read(read8(s.mem, addr))

ExecRotRightCircular(s, tgt) ==
  LET With(pre) ==
        IF pre.st # "ok" THEN Propagate(s, pre)
        ELSE set_prefarith_tgt(set_carry_flag(s, lsb_set(pre.v)), tgt,
                               rotate_right(pre.v))
  IN  With(get_prefarith_tgt(s, tgt))

ExecRotLeft(s, tgt) ==
  LET Store(init_val, result) ==
        set_prefarith_tgt(
          set_flags(s, result = 0, FALSE, FALSE, msb_set(init_val.v)), tgt, result)
      With(init_val) ==
        IF init_val.st # "ok" THEN Propagate(s, init_val)
        ELSE Store(init_val, set_lsb(wrapping_shl(init_val.v), carry_flag(s)))
  IN  With(get_prefarith_tgt(s, tgt))

ExecRotRight(s, tgt) ==
  LET Store(init_val, result) ==
        set_prefarith_tgt(
          set_flags(s, result = 0, FALSE, FALSE, lsb_set(init_val.v)), tgt, result)
      With(init_val) ==
        IF init_val.st # "ok" THEN Propagate(s, init_val)
        ELSE Store(init_val, set_msb(wrapping_shr(init_val.v), carry_flag(s)))
  IN  With(get_prefarith_tgt(s, tgt))

ExecShiftLeftArith(s, tgt) ==
  LET Store(init_val, shifted) ==
        set_prefarith_tgt(
          set_flags(s, shifted = 0, FALSE, FALSE, msb_set(init_val.v)), tgt, shifted)
      With(init_val) ==
        IF init_val.st # "ok" THEN Propagate(s, init_val)
        ELSE Store(init_val, wrapping_shl(init_val.v))
  IN  With(get_prefarith_tgt(s, tgt))

ExecSwap(s, tgt) ==
  LET Flags(swapped, s1) == Then(s1, set_flags(s1, swapped = 0, FALSE, FALSE, FALSE))
      Store(swapped) == Flags(swapped, set_prefarith_tgt(s, tgt, swapped))
      With(val) ==
        IF val.st # "ok" THEN Propagate(s, val)
        ELSE Store((val.v % 16) * 16 + (val.v \div 16))
  IN  With(get_prefarith_tgt(s, tgt))

ExecShiftRightLogic(s, tgt) ==
  LET Store(val, res) ==
        set_prefarith_tgt(set_flags(s, res = 0, FALSE, FALSE, lsb_set(val.v)), tgt, res)
      With(val) ==
        IF val.st # "ok" THEN Propagate(s, val) ELSE Store(val, wrapping_shr(val.v))
  IN  With(get_prefarith_tgt(s, tgt))

ExecBit(s, bit, tgt) ==
  LET With(val) ==
        IF val.st # "ok" THEN Propagate(s, val)
        ELSE set_half_carry_flag(
               set_subtract_flag(set_zero_flag(s, BitAt(val.v, bit.n) = 0), FALSE), TRUE)
  IN  With(get_prefarith_tgt(s, tgt))

\* Res (on = FALSE) and Set (on = TRUE)
ExecResSet(s, bit, tgt, on) ==
  LET With(val) ==
        IF val.st # "ok" THEN Propagate(s, val)
        ELSE set_prefarith_tgt(s, tgt, WithBit(val.v, bit.n, on))
  IN  With(get_prefarith_tgt(s, tgt))

ExecLoad8(s, dst, src) ==
  LET With(val) ==
        IF val.st # "ok" THEN Propagate(s, val)
        ELSE IF dst.k = "Reg8" THEN set_reg8_value(s, dst.r, val.v)
        ELSE write8(s, memloc_to_addr(s, dst), val.v)
  IN  With(CASE src.k = "Reg8" -> ReadOk(get_reg8_value(s, src.r))
             [] src.k = "Imm8" -> ReadOk(src.n)
             [] OTHER -> read8(s.mem, memloc_to_addr(s, src)))

ExecLoad16(s, dst, src) ==
  LET val == IF src.k = "Reg16" THEN get_reg16_value(s, src.r) ELSE src.n IN
  IF dst.k = "Reg16" THEN set_reg16_value(s, dst.r, val)
  ELSE write16(s, memloc_to_addr(s, dst), val)

\* The plain `addr + 1` / `addr - 1` of the four HL+/HL- loads
NextHL(addr, up) == IF up THEN PlainAdd(16, addr, 1) ELSE PlainSub(16, addr, 1)

\* LoadAtoHLI (up) and LoadAtoHLD
ExecLoadAtoHL(s, up) ==
  LET addr == hl(s)
      Move(s2) == Then(s2, set_hl(s2, NextHL(addr, up).v))
  IN  Move(Checked(write8(s, addr, s.r.a), NextHL(addr, up)))

\* LoadHLItoA (up) and LoadHLDtoA
ExecLoadHLtoA(s, up) ==
  LET addr == hl(s)
      Move(val, s1) == Then(s1, set_a(set_hl(s1, NextHL(addr, up).v), val.v))
      With(val) ==
        IF val.st # "ok" THEN Propagate(s, val)
        ELSE Move(val, Checked(s, NextHL(addr, up)))
  IN  With(read8(s.mem, addr))

\* pc + instr.len(), the plain u16 addition of JumpRel, Call and Rst
PcPlusLen(s, i) == PlainAdd(16, s.r.pc, len(i))

ExecJumpRel(s, i) ==
  LET Jump(base, s1) == Then(s1, do_rel_jump(s1, base.v, i.x.n))
      From(base) == Jump(base, Checked(s, base))
  IN  From(PcPlusLen(s, i))

\* Call, CallIf (taken) and Rst
ExecCall(s, i, call_addr) ==
  LET Call(return_addr, s1) == Then(s1, do_call(s1, return_addr.v, call_addr))
      From(return_addr) == Call(return_addr, Checked(s, return_addr))
  IN  From(PcPlusLen(s, i))

\* Ret and RetIf (taken)
ExecRet(s) ==
  LET Jump(ret_addr) == Then(ret_addr.s, set_pc(ret_addr.s, ret_addr.v))
  IN  Jump(do_pop16(s))

ExecReti(s) ==
  LET Enable(s1) == Then(s1, [s1 EXCEPT !.interrupts_master = TRUE])
  IN  Enable(ExecRet(s))

ExecPop(s, reg) ==
  LET Store(val) == Then(val.s, set_reg16_value(val.s, reg.r, val.v))
  IN  Store(do_pop16(s))

ExecPush(s, reg) == do_push16(s, get_reg16_value(s, reg.r))

ExecDecimalAdjust(s) ==
  LET a0    == s.r.a
      cflag == carry_flag(s)
      hflag == half_carry_flag(s)
      hi    == ~subtract_flag(s) /\ (cflag \/ a0 > 153)
      a1    == IF subtract_flag(s)
               THEN (IF cflag THEN wrapping_sub(8, a0, 96) ELSE a0)
               ELSE (IF hi THEN wrapping_add(8, a0, 96) ELSE a0)
      a2    == IF subtract_flag(s)
               THEN (IF hflag THEN wrapping_sub(8, a1, 6) ELSE a1)
               ELSE (IF hflag \/ (a1 % 16) > 9 THEN wrapping_add(8, a1, 6) ELSE a1)
      s1    == IF hi THEN set_carry_flag(s, TRUE) ELSE s
  IN  set_a(set_half_carry_flag(set_zero_flag(s1, a2 = 0), FALSE), a2)

ExecComplementAccumulator(s) ==
  set_half_carry_flag(set_subtract_flag(set_a(s, BitNot(8, s.r.a)), TRUE), TRUE)

ExecRotLeftCircularA(s) ==
  set_a(set_carry_flag(s, msb_set(s.r.a)), rotate_left(s.r.a))

ExecRotRightCircularA(s) ==
  set_a(set_carry_flag(s, lsb_set(s.r.a)), rotate_right(s.r.a))

ExecRotLeftA(s) ==
  LET cur_val == s.r.a
      result  == set_lsb(wrapping_shl(cur_val), carry_flag(s))
  IN  set_a(set_flags(s, FALSE, FALSE, FALSE, msb_set(cur_val)), result)

ExecEI_immediate(s) == [s EXCEPT !.interrupts_master = TRUE]

ExecEI(s) == [s EXCEPT !.ei_queued = TRUE]

ExecDI(s) == [s EXCEPT !.interrupts_master = FALSE]

ExecIllegal_abort(s, illegal) == Abort(s, "todo", illegal)

\* return Err(CpuErr::Illegal(illegal))
ExecIllegal(s, illegal) == Fail(s, "Illegal", illegal)

\* The arms that are todo!()
TodoOps ==
  {"Stop", "Halt", "AddSP", "SubCarry", "RotLeftCircular", "ShiftRightArith",
   "LoadSPi8toHL", "SetCarryFlag", "ComplementCarry", "RotRightA"}

\* Whether the arm returns true (the instruction jumped)
Jumped(s, i) ==
  CASE i.op \in {"Jump", "JumpRel", "JumpHL", "Call", "Ret", "Reti", "Rst"} -> TRUE
    [] i.op \in {"JumpIf", "JumpRelIf", "CallIf"} -> check_condition(s, i.y)
    [] i.op = "RetIf" -> check_condition(s, i.x)
    [] OTHER -> FALSE

\* The state the arm leaves
ExecArm(s, i) ==
  CASE i.op = "Nop" -> s
    [] i.op \in TodoOps -> Abort(s, "todo", 0)
    [] i.op = "EI" -> ExecEI(s)
    [] i.op = "DI" -> ExecDI(s)
    [] i.op = "Add" -> ExecAdd(s, i.x)
    [] i.op = "AddCarry" -> ExecAddCarry(s, i.x)
    [] i.op = "AddHL" -> ExecAddHL(s, i.x)
    [] i.op = "Sub" -> ExecSub(s, i.x, TRUE)
    [] i.op = "And" -> ExecAnd(s, i.x)
    [] i.op = "Or" -> ExecOr(s, i.x)
    [] i.op = "Xor" -> ExecXor(s, i.x)
    [] i.op = "Cmp" -> ExecSub(s, i.x, FALSE)
    [] i.op = "Inc" -> ExecIncDec(s, i.x, TRUE)
    [] i.op = "Dec" -> ExecIncDec(s, i.x, FALSE)
    [] i.op = "RotRightCircular" -> ExecRotRightCircular(s, i.x)
    [] i.op = "RotLeft" -> ExecRotLeft(s, i.x)
    [] i.op = "RotRight" -> ExecRotRight(s, i.x)
    [] i.op = "ShiftLeftArith" -> ExecShiftLeftArith(s, i.x)
    [] i.op = "Swap" -> ExecSwap(s, i.x)
    [] i.op = "ShiftRightLogic" -> ExecShiftRightLogic(s, i.x)
    [] i.op = "Bit" -> ExecBit(s, i.x, i.y)
    [] i.op = "Res" -> ExecResSet(s, i.x, i.y, FALSE)
    [] i.op = "Set" -> ExecResSet(s, i.x, i.y, TRUE)
    [] i.op = "Load8" -> ExecLoad8(s, i.x, i.y)
    [] i.op = "Load16" -> ExecLoad16(s, i.x, i.y)
    [] i.op = "LoadAtoHLI" -> ExecLoadAtoHL(s, TRUE)
    [] i.op = "LoadAtoHLD" -> ExecLoadAtoHL(s, FALSE)
    [] i.op = "LoadHLItoA" -> ExecLoadHLtoA(s, TRUE)
    [] i.op = "LoadHLDtoA" -> ExecLoadHLtoA(s, FALSE)
    [] i.op = "Jump" -> set_pc(s, i.x.n)
    [] i.op = "JumpRel" -> ExecJumpRel(s, i)
    [] i.op = "JumpHL" -> set_pc(s, hl(s))
    [] i.op = "JumpIf" -> IF check_condition(s, i.y) THEN set_pc(s, i.x.n) ELSE s
    [] i.op = "JumpRelIf" -> IF check_condition(s, i.y) THEN ExecJumpRel(s, i) ELSE s
    [] i.op = "Call" -> ExecCall(s, i, i.x.n)
    [] i.op = "CallIf" -> IF check_condition(s, i.y) THEN ExecCall(s, i, i.x.n) ELSE s
    [] i.op = "Ret" -> ExecRet(s)
    [] i.op = "Reti" -> ExecReti(s)
    [] i.op = "RetIf" -> IF check_condition(s, i.x) THEN ExecRet(s) ELSE s
    [] i.op = "Pop" -> ExecPop(s, i.x)
    [] i.op = "Push" -> ExecPush(s, i.x)
    [] i.op = "DecimalAdjust" -> ExecDecimalAdjust(s)
    [] i.op = "ComplementAccumulator" -> ExecComplementAccumulator(s)
    [] i.op = "Rst" -> ExecCall(s, i, i.x.n)
    [] i.op = "RotLeftCircularA" -> ExecRotLeftCircularA(s)
    [] i.op = "RotRightCircularA" -> ExecRotRightCircularA(s)
    [] i.op = "RotLeftA" -> ExecRotLeftA(s)
    [] OTHER -> ExecIllegal(s, i.x.n)

\* A read or write that failed in the arm reaches the caller as
\* CpuErr::MemReadError or CpuErr::MemWriteError; both are an Err.
execute_instruction(s, i) == [s |-> ExecArm(s, i), jumped |-> Jumped(s, i)]

----------------------------------------------------------------------------
(* cpu/mod.rs: Cpu::run_cycle.  The match on the decoded instruction is     *)
(* the one of execute_instruction above: cpu/instructions/mod.rs carries    *)
(* every arm of the match written out in cpu/mod.rs, with fewer of them     *)
(* left as todo!().                                                         *)

CpuNew ==
  [registers |-> RegistersNew, cycles_remaining |-> 0,
   interrupts_master |-> FALSE, ei_queued |-> FALSE]

\* lines 606-609: the IME latch of a queued EI
LatchEI(s, should_enable_interrupts) ==
  IF should_enable_interrupts
  THEN [s EXCEPT !.ei_queued = FALSE, !.interrupts_master = TRUE]
  ELSE s

\* lines 611-616: set PC to the next instruction if the arm did not jump
AdvancePc(s, i, jumped) ==
  LET Set(next, s1) == Then(s1, set_pc(s1, next.v))
      To(next) == Set(next, Checked(s, next))
  IN  IF jumped THEN s ELSE To(PlainAdd(16, s.r.pc, len(i)))

\* lines 619-628: is there an interrupt to service
to_service(s) ==
  BitAnd(s.mem.interrupts_enabled, s.mem.io_registers.interrupts_requested)

InterruptPending(s) == s.interrupts_master /\ BitAnd(to_service(s), 31) # 0

\* lines 632-649: the handler address, 0 standing for unreachable!()
handler_addr(ts) ==
  CASE vblank(ts) -> 64
    [] lcd(ts)    -> 72
    [] timer(ts)  -> 80
    [] serial(ts) -> 88
    [] joypad(ts) -> 96
    [] OTHER      -> 0

\* lines 632-649: the request bitmap after the chosen interrupt is cleared
ClearRequested(requested, ts) ==
  CASE vblank(ts) -> set_vblank(requested, FALSE)
    [] lcd(ts)    -> set_lcd(requested, FALSE)
    [] timer(ts)  -> set_timer(requested, FALSE)
    [] serial(ts) -> set_serial(requested, FALSE)
    [] joypad(ts) -> set_joypad(requested, FALSE)
    [] OTHER      -> requested

INTERRUPT_CYCLES == 20

\* lines 628-655: service the interrupt
ServiceInterrupt(s) ==
  LET s1 == [s EXCEPT !.interrupts_master = FALSE]
      Called(s3) == Then(s3, [s3 EXCEPT !.cycles_remaining = INTERRUPT_CYCLES])
      Cleared(ts, addr, s2) ==
        IF addr = 0 THEN Abort(s1, "unreachable", ts)
        ELSE Called(do_call(s2, s2.r.pc, addr))
      Chosen(ts) ==
        Cleared(ts, handler_addr(ts),
                [s1 EXCEPT !.mem.io_registers.interrupts_requested =
                              ClearRequested(@, ts)])
  IN  Chosen(to_service(s))

CyclesAfter_whole(i, jumped) ==
  IF jumped THEN cycles(i).taken ELSE cycles(i).non_taken

\* lines 659-666: the cycles the instruction still occupies after this call
CyclesAfter(i, jumped) ==
  (IF jumped THEN cycles(i).taken ELSE cycles(i).non_taken) - 1

\* lines 229-669: the call when cycles_remaining = 0.  The result carries
\* the state after the call and what happened on the way.
StepInstr(s) ==
  LET latch == s.ei_queued
      Result(d, ex, s2, irq, final) ==
        [s |-> final, decoded |-> d.st = "ok", instr |-> d.instr,
         executed |-> d.st = "ok" /\ ex.s.st = "ok",
         jumped |-> ex.jumped,
         checked |-> d.st = "ok" /\ ex.s.st = "ok" /\ s2.st = "ok",
         at_check |-> s2, dispatched |-> d.st = "ok" /\ ex.s.st = "ok" /\ irq]
      AtCheck(d, ex, s2, irq) ==
        Result(d, ex, s2, irq,
               IF d.st # "ok" THEN [s EXCEPT !.st = d.st, !.fault = d.fault]
               ELSE IF ex.s.st # "ok" THEN ex.s
               ELSE IF s2.st # "ok" THEN s2
               ELSE IF irq THEN ServiceInterrupt(s2)
               ELSE [s2 EXCEPT !.cycles_remaining = CyclesAfter(d.instr, ex.jumped)])
      Advanced(d, ex, s2) ==
        AtCheck(d, ex, s2, s2.st = "ok" /\ InterruptPending(s2))
      Executed(d, ex) ==
        Advanced(d, ex, AdvancePc(LatchEI(ex.s, latch), d.instr, ex.jumped))
      Decoded(d) == Executed(d, execute_instruction(s, d.instr))
  IN  Decoded(decode(s.mem, s.overflow_checks, s.r.pc))

\* lines 223-227: the call when an instruction is still executing
StepWait(s) == [s EXCEPT !.cycles_remaining = @ - 1]

----------------------------------------------------------------------------
(* The CPU as a state machine: one action, a call of Cpu::run_cycle         *)

\* The CPU-and-memory state the helpers work on, from the variables
CpuState ==
  [r |-> cpu.registers, cycles_remaining |-> cpu.cycles_remaining,
   interrupts_master |-> cpu.interrupts_master, ei_queued |-> cpu.ei_queued,
   mem |-> mem, overflow_checks |-> build.overflow_checks,
   st |-> "ok", fault |-> NoFault]

\* What the history keeps of the machine at one instant
Snapshot(s) ==
  [r |-> s.r, interrupts_master |-> s.interrupts_master,
   ei_queued |-> s.ei_queued, cycles_remaining |-> s.cycles_remaining,
   ie |-> s.mem.interrupts_enabled,
   ifl |-> s.mem.io_registers.interrupts_requested, mem |-> s.mem]

NoEntry ==
  [kind |-> "none", instr |-> Ins("Nop", NoArg, NoArg, 1), opcode |-> 0,
   decoded |-> FALSE, executed |-> FALSE, jumped |-> FALSE, checked |-> FALSE,
   dispatched |-> FALSE,
   pre |-> [r |-> RegistersNew, interrupts_master |-> FALSE, ei_queued |-> FALSE,
            cycles_remaining |-> 0, ie |-> 0, ifl |-> 0, mem |-> MemNew],
   chk |-> [r |-> RegistersNew, interrupts_master |-> FALSE, ei_queued |-> FALSE,
            cycles_remaining |-> 0, ie |-> 0, ifl |-> 0, mem |-> MemNew]]

HistNew == [last |-> NoEntry, prev |-> NoEntry]

WaitEntry(s) == [NoEntry EXCEPT !.kind = "wait", !.pre = Snapshot(s)]

InstrEntry(s, res) ==
  [kind |-> "instr", instr |-> res.instr, opcode |-> read8(s.mem, s.r.pc).v,
   decoded |-> res.decoded, executed |-> res.executed, jumped |-> res.jumped,
   checked |-> res.checked, dispatched |-> res.dispatched,
   pre |-> Snapshot(s), chk |-> Snapshot(res.at_check)]

\* hist.last is the last call; hist.prev is the last call before it that
\* decoded an instruction
Record(h, entry) ==
  [last |-> entry, prev |-> IF h.last.kind = "instr" THEN h.last ELSE h.prev]

RunCycle ==
  /\ outcome.st = "ok"
  /\ host.calls_left > 0
  /\ LET s == CpuState
         Commit(final, entry) ==
           /\ cpu' = [registers |-> final.r,
                      cycles_remaining |-> final.cycles_remaining,
                      interrupts_master |-> final.interrupts_master,
                      ei_queued |-> final.ei_queued]
           /\ mem' = final.mem
           /\ outcome' = [st |-> final.st, fault |-> final.fault]
           /\ hist' = Record(hist, entry)
         Instr(res) == Commit(res.s, InstrEntry(s, res))
     IN  IF s.cycles_remaining # 0
         THEN Commit(StepWait(s), WaitEntry(s))
         ELSE Instr(StepInstr(s))
  /\ host' = [host EXCEPT !.calls_left = @ - 1]
  /\ UNCHANGED <<ppu, build, dma, cart>>

----------------------------------------------------------------------------
(* ppu/objectdata.rs, ppu/palette.rs, ppu/tile.rs, ppu/tilemap.rs           *)

\* ObjectData([u8; 4]): y-pos, x-pos, tile number, flags
ObjectData(bytes) ==
  [y_pos |-> bytes[1], x_pos |-> bytes[2], tilenum |-> bytes[3], flags |-> bytes[4]]

offset_ypos(obj) == obj.y_pos - 16

offset_xpos(obj) == obj.x_pos - 8

x_flip(flags) == BitAt(flags, 5) = 1

obj_palette(flags) == IF BitAt(flags, 4) = 1 THEN "One" ELSE "Zero"

\* ObjDataFlags::prio_always, the flag the fetcher stores with every object
\* pixel: the object is drawn over every background color, which it is when
\* its BG-priority flag (bit 7, bg_win_prio) is clear
prio_always(flags) == BitAt(flags, 7) = 0

bits_to_color(bits) ==
  CASE bits = 0 -> "White"
    [] bits = 1 -> "LightGray"
    [] bits = 2 -> "DarkGray"
    [] OTHER -> "Black"

\* Palette::make_color: two bits of the palette byte per colour id
make_color(val, id) == bits_to_color((val \div Pow2(2 * id)) % 4)

load_obj(id, m) ==
  IF id = "Zero" THEN m.io_registers.obj0_palette ELSE m.io_registers.obj1_palette

\* tilemap::calc_offset
calc_offset(x, y) == (32 * y) + x

\* LcdControl getters used by the PPU
obj_size(m) == BitAt(m.io_registers.lcd_control, 2) = 1

bg_tilemap_area(m) == BitAt(m.io_registers.lcd_control, 3) = 1

bg_window_tile_area(m) == BitAt(m.io_registers.lcd_control, 4) = 1

lcd_ppu_enable(m) == BitAt(m.io_registers.lcd_control, 7) = 1

\* MemController::read_range::<N>: the N bytes from addr on.  The memory
\* controller of this tree has no such function; the PPU needs it for OAM
\* entries and tiles, and it is taken as the plain read of the cells.
read_range(m, addr, n) == [i \in 1..n |-> CellGet(m.cells, addr + i - 1)]

----------------------------------------------------------------------------
(* ppu/inlinequeue.rs: a queue is the sequence of its elements              *)

BG_FIFO_SIZE == 16

OBJ_FIFO_SIZE == 8

space_remaining(q, n) == n - Len(q)

\* push_n: [ok, q]; Err(()) and no change when the elements do not fit
push_n(q, n, elems) ==
  IF Len(q) + Len(elems) > n THEN [ok |-> FALSE, q |-> q]
  ELSE [ok |-> TRUE, q |-> q \o elems]

\* pop: [ok, v, q]; Err(()) when the queue is empty
pop(q, none) ==
  IF Len(q) < 1 THEN [ok |-> FALSE, v |-> none, q |-> q]
  ELSE [ok |-> TRUE, v |-> Head(q), q |-> Tail(q)]

----------------------------------------------------------------------------
(* ppu/fetcher.rs: the pixel fetcher.  The operators work on a record f of  *)
(* the fetcher's fields and the outcome fields st, fault, overflow_checks.  *)

PhaseFetchTile == [k |-> "FetchTile", tile_idx |-> 0, lower |-> 0, pixels |-> <<>>]

PhaseFetchDataLow(tile_idx) == [PhaseFetchTile EXCEPT !.k = "FetchDataLow", !.tile_idx = tile_idx]

PhaseFetchDataHigh(tile_idx, lower) ==
  [PhaseFetchTile EXCEPT !.k = "FetchDataHigh", !.tile_idx = tile_idx, !.lower = lower]

PhaseSleep(pixels) == [PhaseFetchTile EXCEPT !.k = "Sleep", !.pixels = pixels]

PhasePush(pixels) == [PhaseFetchTile EXCEPT !.k = "Push", !.pixels = pixels]

\* object_to_fetch: <<>> is None, <<obj>> is Some(obj)
PixelFetcherNew ==
  [cycles_left |-> 0, x_pos |-> 0, window_lines_drawn |-> 0,
   win_x_reached |-> FALSE, object_to_fetch |-> <<>>, bg_fifo |-> <<>>,
   obj_fifo |-> <<>>, phase |-> PhaseFetchTile]

is_fetching_obj(f) == f.object_to_fetch # <<>>

fetch_obj(f, obj) ==
  [f EXCEPT !.object_to_fetch = <<obj>>, !.cycles_left = 0, !.phase = PhaseFetchTile]

hblank_reset(f) == [f EXCEPT !.x_pos = 0, !.bg_fifo = <<>>, !.obj_fifo = <<>>]

vblank_reset(f) == hblank_reset([f EXCEPT !.window_lines_drawn = 0])

Reverse(seq) == [i \in 1..Len(seq) |-> seq[Len(seq) + 1 - i]]

\* combine_pixdata for idx = 0..7, as the array from_fn builds it
combine_pixdata(lower, upper, idx) == BitAt(lower, idx) + 2 * BitAt(upper, idx)

addr_from_tile_idx(tile_idx, addressing_mode) ==
  IF addressing_mode THEN 32768 + tile_idx * 16
  ELSE 36864 + AsI8(tile_idx) * 16

get_tile_by_idx(is_obj, tile_idx, m) ==
  read_range(m, addr_from_tile_idx(tile_idx, is_obj \/ bg_window_tile_area(m)), 16)

\* the row of the tile the fetcher reads: lcd_y + scy, a plain u8 addition
tile_line(m) == PlainAdd(8, m.io_registers.lcd_y, m.io_registers.scy)

fetch_bg_tile(f, m) ==
  LET tilemap_base == IF bg_tilemap_area(m) THEN 39936 ELSE 38912
      xs   == PlainAdd(8, m.io_registers.scx \div 8, f.x_pos)
      ys   == PlainAdd(8, m.io_registers.scy, m.io_registers.lcd_y)
      x    == xs.v % 32
      y    == ys.v \div 8
      rd   == read8(m, tilemap_base + (calc_offset(x, y) % 1024))
      f1   == Checked(Checked(f, xs), ys)
  IN  IF f1.st # "ok" THEN f1
      ELSE IF rd.st # "ok" THEN Propagate(f1, rd)
      ELSE [f1 EXCEPT !.phase = PhaseFetchDataLow(rd.v)]

\* fetch_tile with fetching_window = false, the only way draw calls it
fetch_tile(f, m) ==
  IF is_fetching_obj(f)
  THEN [f EXCEPT !.phase = PhaseFetchDataLow(f.object_to_fetch[1].tilenum)]
  ELSE fetch_bg_tile(f, m)

fetch_data_low(f, m) ==
  LET tile == get_tile_by_idx(is_fetching_obj(f), f.phase.tile_idx, m)
      tl   == tile_line(m)
      f1   == Checked(f, tl)
  IN  IF f1.st # "ok" THEN f1
      ELSE [f1 EXCEPT !.phase = PhaseFetchDataHigh(f.phase.tile_idx, tile[((tl.v % 8) * 2) + 1])]

fetch_data_high(f, m) ==
  LET tile  == get_tile_by_idx(is_fetching_obj(f), f.phase.tile_idx, m)
      tl    == tile_line(m)
      upper == tile[((tl.v % 8) * 2) + 2]
      f1    == Checked(f, tl)
  IN  IF f1.st # "ok" THEN f1
      ELSE [f1 EXCEPT !.phase =
              PhaseSleep([i \in 1..8 |-> combine_pixdata(f.phase.lower, upper, i - 1)])]

\* PixelFetcher::push that merges all eight pixels of an object
fetcher_push_whole(f) ==
  IF space_remaining(f.bg_fifo, BG_FIFO_SIZE) < 8 THEN f
  ELSE
    LET pixels == Reverse(f.phase.pixels) IN
    IF is_fetching_obj(f)
    THEN
      LET obj      == f.object_to_fetch[1]
          occupied == Len(f.obj_fifo)
          px       == IF x_flip(obj.flags) THEN Reverse(pixels) ELSE pixels
          fresh    == px
          made     == [i \in 1..Len(fresh) |->
                         [color |-> fresh[i], palette_id |-> obj_palette(obj.flags),
                          prio_always |-> prio_always(obj.flags)]]
          pushed   == push_n(f.obj_fifo, OBJ_FIFO_SIZE, made)
      IN  IF ~pushed.ok THEN Abort(f, "unwrap", 0)
          ELSE [f EXCEPT !.object_to_fetch = <<>>, !.obj_fifo = pushed.q,
                         !.phase = PhaseFetchTile]
    ELSE
      LET pushed == push_n(f.bg_fifo, BG_FIFO_SIZE, pixels)
          xp     == PlainAdd(8, f.x_pos, 1)
      IN  IF ~pushed.ok THEN Abort(f, "unwrap", 0)
          ELSE [Checked(f, xp) EXCEPT !.bg_fifo = pushed.q, !.x_pos = xp.v,
                                      !.phase = PhaseFetchTile]

\* PixelFetcher::push
fetcher_push(f) ==
  IF space_remaining(f.bg_fifo, BG_FIFO_SIZE) < 8 THEN f
  ELSE
    LET pixels == Reverse(f.phase.pixels) IN
    IF is_fetching_obj(f)
    THEN
      LET obj      == f.object_to_fetch[1]
          occupied == Len(f.obj_fifo)
          px       == IF x_flip(obj.flags) THEN Reverse(pixels) ELSE pixels
          fresh    == SubSeq(px, occupied + 1, 8)
          made     == [i \in 1..Len(fresh) |->
                         [color |-> fresh[i], palette_id |-> obj_palette(obj.flags),
                          prio_always |-> prio_always(obj.flags)]]
          pushed   == push_n(f.obj_fifo, OBJ_FIFO_SIZE, made)
      IN  IF ~pushed.ok THEN Abort(f, "unwrap", 0)
          ELSE [f EXCEPT !.object_to_fetch = <<>>, !.obj_fifo = pushed.q,
                         !.phase = PhaseFetchTile]
    ELSE
      LET pushed == push_n(f.bg_fifo, BG_FIFO_SIZE, pixels)
          xp     == PlainAdd(8, f.x_pos, 1)
      IN  IF ~pushed.ok THEN Abort(f, "unwrap", 0)
          ELSE [Checked(f, xp) EXCEPT !.bg_fifo = pushed.q, !.x_pos = xp.v,
                                      !.phase = PhaseFetchTile]

\* PixelFetcher::run_cycle
fetcher_run_cycle(f, m) ==
  IF f.cycles_left # 0 THEN [f EXCEPT !.cycles_left = @ - 1]
  ELSE
    LET Rest(f1) ==
          IF f1.st # "ok" THEN f1
          ELSE [f1 EXCEPT !.cycles_left = IF f1.phase.k = "Push" THEN 0 ELSE 1]
    IN  Rest(CASE f.phase.k = "FetchTile" -> fetch_tile(f, m)
               [] f.phase.k = "FetchDataLow" -> fetch_data_low(f, m)
               [] f.phase.k = "FetchDataHigh" -> fetch_data_high(f, m)
               [] f.phase.k = "Sleep" -> [f EXCEPT !.phase = PhasePush(f.phase.pixels)]
               [] OTHER -> fetcher_push(f))

----------------------------------------------------------------------------
(* ppu/mod.rs: the PPU.  The operators work on a record s of the PPU (p),   *)
(* the memory controller (mem), the number of frames the graphics sink has  *)
(* received (frames) and the outcome fields st, fault, overflow_checks.     *)
(* debug_assert! is compiled in by the profile that checks overflow.        *)
(* Of the frame buffer the model keeps the last pixel written.              *)

OAM_CYCLES == 80

SCANLINE_CYCLES == 456

FRAME_X == 160

FRAME_Y == 144

NUM_OAM_OBJECTS == 40

OAM_START == 254 * 256

OAMScanDataNew ==
  [buffer |-> <<>>, cur_obj_index |-> 0, cycles_left |-> 0,
   window_check_done |-> FALSE]

\* buffer holds the num_in_buf objects in use
DrawDataNew(obj_buffer, to_discard) ==
  [pix_to_discard |-> to_discard, pushed_pixels |-> 0, fetcher_cycles_left |-> 0,
   buffer |-> obj_buffer]

NoDrawData == DrawDataNew(<<>>, 0)

PpuNew ==
  [mode |-> "Inactive", scan |-> OAMScanDataNew, draw |-> NoDrawData,
   line_data |-> [cur_cycle |-> 0],
   frame_data |-> [cur_cycle |-> 0, win_y_reached |-> FALSE],
   pix_fetcher |-> PixelFetcherNew,
   framebuf |-> [x |-> 0, y |-> 0, color |-> "White", bg |-> 0, obj |-> <<>>]]

\* the fetcher of s with the outcome fields, and back
FetcherIn(s) ==
  LET f == s.p.pix_fetcher IN
  [cycles_left |-> f.cycles_left, x_pos |-> f.x_pos,
   window_lines_drawn |-> f.window_lines_drawn, win_x_reached |-> f.win_x_reached,
   object_to_fetch |-> f.object_to_fetch, bg_fifo |-> f.bg_fifo,
   obj_fifo |-> f.obj_fifo, phase |-> f.phase,
   st |-> s.st, fault |-> s.fault, overflow_checks |-> s.overflow_checks]

FetcherOut(s, f) ==
  [s EXCEPT !.st = f.st, !.fault = f.fault,
            !.p.pix_fetcher =
               [cycles_left |-> f.cycles_left, x_pos |-> f.x_pos,
                window_lines_drawn |-> f.window_lines_drawn,
                win_x_reached |-> f.win_x_reached,
                object_to_fetch |-> f.object_to_fetch, bg_fifo |-> f.bg_fifo,
                obj_fifo |-> f.obj_fifo, phase |-> f.phase]]

DebugAssert(s, cond) ==
  IF s.overflow_checks /\ ~cond THEN Abort(s, "debug_assert", 0) ELSE s

\* Ppu::sync_active_state leaving LY as it is when the PPU is turned off
sync_active_state_keep_ly(s) ==
  LET should_be_active == lcd_ppu_enable(s.mem)
      is_active        == s.p.mode # "Inactive"
  IN  IF should_be_active /\ ~is_active
      THEN [s EXCEPT !.p.mode = "OAMScan", !.p.scan = OAMScanDataNew]
      ELSE IF ~should_be_active /\ is_active
      THEN [s EXCEPT !.p.mode = "Inactive", !.p.scan = OAMScanDataNew,
                     !.p.draw = NoDrawData,
                     !.p.line_data = [cur_cycle |-> 0],
                     !.p.frame_data = [cur_cycle |-> 0, win_y_reached |-> FALSE],
                     !.p.pix_fetcher = PixelFetcherNew]
      ELSE s

sync_active_state(s) ==
  LET should_be_active == lcd_ppu_enable(s.mem)
      is_active        == s.p.mode # "Inactive"
  IN  IF should_be_active /\ ~is_active
      THEN [s EXCEPT !.p.mode = "OAMScan", !.p.scan = OAMScanDataNew]
      ELSE IF ~should_be_active /\ is_active
      THEN [s EXCEPT !.p.mode = "Inactive", !.p.scan = OAMScanDataNew,
                     !.p.draw = NoDrawData,
                     !.p.line_data = [cur_cycle |-> 0],
                     !.p.frame_data = [cur_cycle |-> 0, win_y_reached |-> FALSE],
                     !.p.pix_fetcher = PixelFetcherNew,
                     !.mem.io_registers.lcd_y = 0]
      ELSE s

\* Ppu::oam_scan with one cycle for each entry
oam_scan_one_cycle(s) ==
  LET d   == s.p.scan
      io  == s.mem.io_registers
      s1  == IF d.window_check_done THEN s
             ELSE [s EXCEPT !.p.scan.window_check_done = TRUE,
                            !.p.frame_data.win_y_reached = @ \/ (io.lcd_y = io.win_y)]
      obj == ObjectData(read_range(s.mem, OAM_START + (4 * d.cur_obj_index), 4))
      obj_height == IF obj_size(s.mem) THEN 16 ELSE 8
      xpos_ok == offset_xpos(obj) > 0
      ypos_ok == io.lcd_y >= offset_ypos(obj) /\ io.lcd_y < offset_ypos(obj) + obj_height
      add == Len(d.buffer) < 10 /\ xpos_ok /\ ypos_ok
  IN  IF d.cycles_left > 0 THEN [s1 EXCEPT !.p.scan.cycles_left = @ - 1]
      ELSE IF d.cur_obj_index >= NUM_OAM_OBJECTS
      THEN [DebugAssert(s1, OAM_CYCLES + 1 = s1.p.line_data.cur_cycle) EXCEPT
              !.mem.vram_open = FALSE,
              !.p.mode = "Draw",
              !.p.draw = DrawDataNew(d.buffer, io.scx % 8),
              !.p.scan = OAMScanDataNew]
      ELSE [s1 EXCEPT !.p.scan.buffer = IF add THEN Append(@, obj) ELSE @,
                      !.p.scan.cur_obj_index = @ + 1,
                      !.p.scan.cycles_left = 0]

oam_scan(s) ==
  LET d   == s.p.scan
      io  == s.mem.io_registers
      s1  == IF d.window_check_done THEN s
             ELSE [s EXCEPT !.p.scan.window_check_done = TRUE,
                            !.p.frame_data.win_y_reached = @ \/ (io.lcd_y = io.win_y)]
      obj == ObjectData(read_range(s.mem, OAM_START + (4 * d.cur_obj_index), 4))
      obj_height == IF obj_size(s.mem) THEN 16 ELSE 8
      xpos_ok == offset_xpos(obj) > 0
      ypos_ok == io.lcd_y >= offset_ypos(obj) /\ io.lcd_y < offset_ypos(obj) + obj_height
      add == Len(d.buffer) < 10 /\ xpos_ok /\ ypos_ok
  IN  IF d.cycles_left > 0 THEN [s1 EXCEPT !.p.scan.cycles_left = @ - 1]
      ELSE IF d.cur_obj_index >= NUM_OAM_OBJECTS
      THEN [DebugAssert(s1, OAM_CYCLES + 1 = s1.p.line_data.cur_cycle) EXCEPT
              !.mem.vram_open = FALSE,
              !.p.mode = "Draw",
              !.p.draw = DrawDataNew(d.buffer, io.scx % 8),
              !.p.scan = OAMScanDataNew]
      ELSE [s1 EXCEPT !.p.scan.buffer = IF add THEN Append(@, obj) ELSE @,
                      !.p.scan.cur_obj_index = @ + 1,
                      !.p.scan.cycles_left = 1]

\* get_obj_at_x: the index of the first object at x (0 when there is none)
\* and the buffer with that object removed
get_obj_at_x(objs, x) ==
  LET hits == {i \in 1..Len(objs) : x = offset_xpos(objs[i])}
      idx  == IF hits = {} THEN 0 ELSE CHOOSE i \in hits : \A j \in hits : i <= j
  IN  [idx |-> idx,
       objs |-> IF idx = 0 THEN objs
                ELSE SubSeq(objs, 1, idx - 1) \o SubSeq(objs, idx + 1, Len(objs))]

NoPixel == [color |-> 0, palette_id |-> "Zero", prio_always |-> FALSE]

\* Ppu::draw with every opaque object pixel drawn over the background
draw_obj_over(s) ==
  LET Emit(f2, buf2) ==
        IF is_fetching_obj(f2) THEN [FetcherOut(s, f2) EXCEPT !.p.draw.buffer = buf2]
        ELSE
          LET d        == s.p.draw
              io       == s.mem.io_registers
              can_pop  == Len(f2.bg_fifo) > 8
              discard  == can_pop /\ d.pix_to_discard > 0
              emit     == can_pop /\ d.pix_to_discard = 0
              bg       == pop(f2.bg_fifo, 0)
              ob       == pop(f2.obj_fifo, NoPixel)
              bg_color == make_color(io.bg_palette, bg.v)
              color    == IF ob.ok
                          THEN IF ob.v.color = 0
                               THEN bg_color
                               ELSE make_color(load_obj(ob.v.palette_id, s.mem), ob.v.color)
                          ELSE bg_color
              pushed   == IF emit THEN d.pushed_pixels + 1 ELSE d.pushed_pixels
              Done(s1) ==
                IF s1.p.draw.pushed_pixels = FRAME_X
                THEN [s1 EXCEPT !.mem.vram_open = TRUE, !.mem.oam_open = TRUE,
                                !.p.mode = "HBlank", !.p.draw = NoDrawData]
                ELSE s1
          IN  Done([FetcherOut(s, [f2 EXCEPT !.bg_fifo = IF can_pop THEN bg.q ELSE @,
                                              !.obj_fifo = IF emit THEN ob.q ELSE @])
                      EXCEPT
                        !.p.draw.buffer = buf2,
                        !.p.draw.pix_to_discard = IF discard THEN @ - 1 ELSE @,
                        !.p.draw.pushed_pixels = pushed,
                        !.p.framebuf = IF emit
                                       THEN [x |-> d.pushed_pixels, y |-> io.lcd_y,
                                             color |-> color, bg |-> bg.v,
                                             obj |-> IF ob.ok THEN <<ob.v.color>>
                                                     ELSE <<>>]
                                       ELSE @])
      Objects(f1) ==
        IF f1.st # "ok" THEN FetcherOut(s, f1)
        ELSE
          LET got == get_obj_at_x(s.p.draw.buffer, s.p.draw.pushed_pixels) IN
          IF ~is_fetching_obj(f1) /\ got.idx # 0
          THEN Emit(fetch_obj(f1, s.p.draw.buffer[got.idx]), got.objs)
          ELSE Emit(f1, s.p.draw.buffer)
  IN  Objects(fetcher_run_cycle(FetcherIn(s), s.mem))

\* Ppu::draw: Objects continues after the fetcher's cycle f1, Emit after the
\* search for an object at the current x (f2 the fetcher, buf2 the buffer).
\* framebuf is the pixel set last, with the color-ID of the background pixel
\* and of the object pixel (if one was popped) it was mixed from.
draw(s) ==
  LET Emit(f2, buf2) ==
        IF is_fetching_obj(f2) THEN [FetcherOut(s, f2) EXCEPT !.p.draw.buffer = buf2]
        ELSE
          LET d        == s.p.draw
              io       == s.mem.io_registers
              can_pop  == Len(f2.bg_fifo) > 8
              discard  == can_pop /\ d.pix_to_discard > 0
              emit     == can_pop /\ d.pix_to_discard = 0
              bg       == pop(f2.bg_fifo, 0)
              ob       == pop(f2.obj_fifo, NoPixel)
              bg_color == make_color(io.bg_palette, bg.v)
              color    == IF ob.ok
                          THEN IF ob.v.color = 0 \/ (~ob.v.prio_always /\ bg.v # 0)
                               THEN bg_color
                               ELSE make_color(load_obj(ob.v.palette_id, s.mem), ob.v.color)
                          ELSE bg_color
              pushed   == IF emit THEN d.pushed_pixels + 1 ELSE d.pushed_pixels
              Done(s1) ==
                IF s1.p.draw.pushed_pixels = FRAME_X
                THEN [s1 EXCEPT !.mem.vram_open = TRUE, !.mem.oam_open = TRUE,
                                !.p.mode = "HBlank", !.p.draw = NoDrawData]
                ELSE s1
          IN  Done([FetcherOut(s, [f2 EXCEPT !.bg_fifo = IF can_pop THEN bg.q ELSE @,
                                              !.obj_fifo = IF emit THEN ob.q ELSE @])
                      EXCEPT
                        !.p.draw.buffer = buf2,
                        !.p.draw.pix_to_discard = IF discard THEN @ - 1 ELSE @,
                        !.p.draw.pushed_pixels = pushed,
                        !.p.framebuf = IF emit
                                       THEN [x |-> d.pushed_pixels, y |-> io.lcd_y,
                                             color |-> color, bg |-> bg.v,
                                             obj |-> IF ob.ok THEN <<ob.v.color>>
                                                     ELSE <<>>]
                                       ELSE @])
      Objects(f1) ==
        IF f1.st # "ok" THEN FetcherOut(s, f1)
        ELSE
          LET got == get_obj_at_x(s.p.draw.buffer, s.p.draw.pushed_pixels) IN
          IF ~is_fetching_obj(f1) /\ got.idx # 0
          THEN Emit(fetch_obj(f1, s.p.draw.buffer[got.idx]), got.objs)
          ELSE Emit(f1, s.p.draw.buffer)
  IN  Objects(fetcher_run_cycle(FetcherIn(s), s.mem))

Ppu_hblank(s) ==
  IF s.p.line_data.cur_cycle = SCANLINE_CYCLES
  THEN
    LET ly == PlainAdd(8, s.mem.io_registers.lcd_y, 1)
        s1 == [Checked(s, ly) EXCEPT !.p.line_data = [cur_cycle |-> 0],
                                     !.mem.io_registers.lcd_y = ly.v,
                                     !.p.pix_fetcher = hblank_reset(@)]
    IN  IF ly.v = FRAME_Y THEN [s1 EXCEPT !.p.mode = "VBlank"]
        ELSE [s1 EXCEPT !.mem.oam_open = FALSE, !.p.mode = "OAMScan",
                        !.p.scan = OAMScanDataNew]
  ELSE s

\* the graphics sink takes the frame and returns Ok
Ppu_vblank(s) ==
  IF s.p.line_data.cur_cycle = SCANLINE_CYCLES
  THEN
    LET ly == PlainAdd(8, s.mem.io_registers.lcd_y, 1)
        s1 == [Checked(s, ly) EXCEPT !.p.line_data = [cur_cycle |-> 0],
                                     !.mem.io_registers.lcd_y = ly.v]
    IN  IF ly.v = FRAME_Y + 10
        THEN [s1 EXCEPT !.mem.io_registers.lcd_y = 0,
                        !.frames = @ + 1,
                        !.p.frame_data = [cur_cycle |-> 0, win_y_reached |-> FALSE],
                        !.mem.oam_open = FALSE,
                        !.p.mode = "OAMScan", !.p.scan = OAMScanDataNew,
                        !.p.pix_fetcher = vblank_reset(@)]
        ELSE s1
  ELSE s

\* Ppu::run_cycle: the counters, then the mode, then the two assertions
Ppu_run_cycle(s) ==
  LET Asserts(s3) ==
        IF s3.st # "ok" THEN s3
        ELSE DebugAssert(DebugAssert(s3, s3.mem.io_registers.lcd_y < FRAME_Y + 10),
                         s3.mem.io_registers.lcd_y >= FRAME_Y => s3.p.mode = "VBlank")
      Mode(s2) ==
        CASE s2.p.mode = "Inactive" -> s2
          [] s2.p.mode = "HBlank" -> Ppu_hblank(s2)
          [] s2.p.mode = "VBlank" -> Ppu_vblank(s2)
          [] s2.p.mode = "OAMScan" -> oam_scan(s2)
          [] OTHER -> draw(s2)
      Count(s1) ==
        Mode(IF s1.p.mode # "Inactive"
             THEN [s1 EXCEPT !.p.line_data.cur_cycle = @ + 1,
                             !.p.frame_data.cur_cycle = @ + 1]
             ELSE s1)
  IN  Asserts(Count(sync_active_state(s)))

PpuState ==
  [p |-> ppu, mem |-> mem, frames |-> host.frames,
   st |-> "ok", fault |-> NoFault, overflow_checks |-> build.overflow_checks]

\* One call of Ppu::run_cycle by the host loop
PpuRunCycle ==
  /\ outcome.st = "ok"
  /\ host.calls_left > 0
  /\ LET Commit(final) ==
           /\ ppu' = final.p
           /\ mem' = final.mem
           /\ outcome' = [st |-> final.st, fault |-> final.fault]
           /\ host' = [host EXCEPT
                         !.calls_left = @ - 1,
                         !.frames = final.frames,
                         !.ppu_cycles = @ + 1,
                         !.vblanks = IF final.p.mode = "VBlank" /\ ppu.mode # "VBlank"
                                     THEN @ + 1 ELSE @]
     IN  Commit(Ppu_run_cycle(PpuState))
  /\ UNCHANGED <<cpu, build, hist, dma, cart>>

----------------------------------------------------------------------------
(* memcontroller/dma.rs: the DMA controller                                 *)

\* DMAController::new; oam is <<>> for None and <<command>> for Some(command)
DMAControllerNew == [oam |-> <<>>]

DMACommand(n, target, data) ==
  [cycles |-> n, target_address |-> target, data |-> data]

\* DMAController::push_oam with every request replacing the transfer
push_oam_replace(d, command) == [d EXCEPT !.oam = <<command>>]

\* DMAController::push_oam
push_oam(d, command) ==
  IF d.oam = <<>> THEN [d EXCEPT !.oam = <<command>>] ELSE d

\* DMAController::run_cycle: the controller after the call and the vector
\* returned
DMA_run_cycle(d) ==
  LET Stepped(oam_dma) ==
        IF oam_dma.cycles = 0 THEN [d |-> [d EXCEPT !.oam = <<>>], ret |-> <<oam_dma>>]
        ELSE [d |-> [d EXCEPT !.oam = <<oam_dma>>], ret |-> <<>>]
  IN  IF d.oam = <<>> THEN [d |-> d, ret |-> <<>>]
      ELSE Stepped([d.oam[1] EXCEPT !.cycles = @ - 1])

\* oam_dma_command in a build with the given overflow behaviour: the result
\* of the call and, if it is Ok, the command.  The loop returns the error of
\* the first read that fails.
oam_dma_command(val, m, chk) ==
  LET source_addr == val * 256
      end  == PlainAdd(16, source_addr, 256)
      addrs == source_addr .. (end.v - 1)
      bad  == {a \in addrs : read8(m, a).st # "ok"}
      First(a) == [st |-> read8(m, a).st, fault |-> read8(m, a).fault,
                   command |-> DMACommand(0, 0, <<>>)]
  IN  IF end.ovf /\ chk
      THEN [st |-> "panic", fault |-> Fault("overflow_u16", source_addr),
            command |-> DMACommand(0, 0, <<>>)]
      ELSE IF bad # {}
      THEN First(CHOOSE a \in bad : \A b \in bad : a <= b)
      ELSE [st |-> "ok", fault |-> NoFault,
            command |-> DMACommand(640, 65024,
                          [k \in 1..Cardinality(addrs) |-> read8(m, source_addr + k - 1).v])]

\* What the host has asked of the controller: requests accepted, commands
\* delivered with the number of cycles each took, cycles run since the
\* transfer in flight was accepted, and the last call.
DmaHostNew(requests, idle) ==
  [requests_left |-> requests, idle_left |-> idle, accepted |-> 0, age |-> 0,
   delivered |-> <<>>,
   last |-> [op |-> "none", val |-> 0, before |-> DMAControllerNew,
             command |-> DMACommand(0, 0, <<>>)]]

\* The source pages of the DMA runs: ROM, VRAM, work RAM, echo RAM and the
\* last page
DmaPages == {0, 128, 192, 224, 255}

\* The points of a transfer at which the CPU writes to 0xFF46 again: the
\* number of cycles the transfer has run
DmaRequestTimes == {0, 1, 320, 639}

\* A write of val to 0xFF46: the command is created and pushed
DmaRequest ==
  /\ outcome.st = "ok"
  /\ host.requests_left > 0
  /\ dma.oam = <<>> \/ host.age \in DmaRequestTimes
  /\ \E val \in DmaPages :
       LET Commit(res) ==
             /\ outcome' = [st |-> res.st, fault |-> res.fault]
             /\ dma' = IF res.st = "ok" THEN push_oam(dma, res.command) ELSE dma
             /\ host' = [host EXCEPT
                           !.requests_left = @ - 1,
                           !.accepted = IF res.st = "ok" /\ dma.oam = <<>>
                                        THEN @ + 1 ELSE @,
                           !.age = IF res.st = "ok" /\ dma.oam = <<>> THEN 0 ELSE @,
                           !.last = [op |-> "request", val |-> val, before |-> dma,
                                     command |-> res.command]]
       IN  Commit(oam_dma_command(val, mem, build.overflow_checks))
  /\ UNCHANGED <<cpu, mem, ppu, build, hist, loop, cart>>

\* One call of DMAController::run_cycle
DmaCycle ==
  /\ outcome.st = "ok"
  /\ dma.oam # <<>> \/ host.idle_left > 0
  /\ LET Commit(res) ==
           /\ dma' = res.d
           /\ host' = [host EXCEPT
                         !.idle_left = IF dma.oam = <<>> THEN @ - 1 ELSE @,
                         !.age = @ + 1,
                         !.delivered = IF res.ret = <<>> THEN @
                                       ELSE Append(@, [command |-> res.ret[1],
                                                       age |-> host.age + 1]),
                         !.last = [op |-> "cycle", val |-> 0, before |-> dma,
                                   command |-> DMACommand(0, 0, <<>>)]]
     IN  Commit(DMA_run_cycle(dma))
  /\ UNCHANGED <<cpu, mem, ppu, build, outcome, hist, loop, cart>>

----------------------------------------------------------------------------
(* input/mod.rs: the joypad mixer.  GbInputs is a record of eight flags,    *)
(* TRUE for a key that is held.                                             *)

get_input_nibble_for_buttons(inputs) ==
  (IF ~inputs.start THEN 8 ELSE 0) + (IF ~inputs.select THEN 4 ELSE 0)
    + (IF ~inputs.b THEN 2 ELSE 0) + (IF ~inputs.a THEN 1 ELSE 0)

get_input_nibble_for_dpad(inputs) ==
  (IF ~inputs.down THEN 8 ELSE 0) + (IF ~inputs.up THEN 4 ELSE 0)
    + (IF ~inputs.left THEN 2 ELSE 0) + (IF ~inputs.right THEN 1 ELSE 0)

\* apply_input_to: the new register value and can_raise_interrupt
apply_input_to(cur_joypad_register, cur_inputs) ==
  LET select_buttons  == BitAt(cur_joypad_register, 5) = 0
      select_dpad     == BitAt(cur_joypad_register, 4) = 0
      selector_nibble == cur_joypad_register - (cur_joypad_register % 16)
      Mixed(nibble) ==
        [v |-> selector_nibble + nibble,
         raise |-> cur_joypad_register % 16 = 15 /\ nibble # 15]
  IN  IF select_buttons THEN Mixed(get_input_nibble_for_buttons(cur_inputs))
      ELSE IF select_dpad THEN Mixed(get_input_nibble_for_dpad(cur_inputs))
      ELSE [v |-> selector_nibble + 15, raise |-> FALSE]

NoInputs ==
  [start |-> FALSE, select |-> FALSE, b |-> FALSE, a |-> FALSE,
   down |-> FALSE, up |-> FALSE, left |-> FALSE, right |-> FALSE]

\* The keys of the joypad runs: any of Right, Left and A held
JoypadInputs ==
  {[NoInputs EXCEPT !.right = r, !.left = l, !.a = a] : r, l, a \in BOOLEAN}

\* The values the program writes to 0xFF00: dpad, buttons, neither, both
JoypadSelectors == {32, 16, 48, 0}

JoypadHostNew(calls) ==
  [calls_left |-> calls,
   last |-> [op |-> "none", before |-> 0, inputs |-> NoInputs, v |-> 0,
             raise |-> FALSE]]

\* The program selects a key group: a write to 0xFF00
JoypadSelect ==
  /\ outcome.st = "ok"
  /\ host.calls_left > 0
  /\ \E val \in JoypadSelectors :
       /\ mem' = [mem EXCEPT !.io_registers = IoRegs_write(@, 65280, val)]
       /\ host' = [host EXCEPT
                     !.calls_left = @ - 1,
                     !.last = [op |-> "select", before |-> mem.io_registers.joypad,
                               inputs |-> NoInputs, v |-> val, raise |-> FALSE]]
  /\ UNCHANGED <<cpu, ppu, build, outcome, hist, loop, dma, cart>>

\* The keys held are mixed into 0xFF00: the value apply_input_to returns
\* becomes the register, and IF bit 4 is set if it says so
JoypadApply ==
  /\ outcome.st = "ok"
  /\ host.calls_left > 0
  /\ \E inputs \in JoypadInputs :
       LET Commit(res) ==
             /\ mem' = [mem EXCEPT
                          !.io_registers.joypad = res.v,
                          !.io_registers.interrupts_requested =
                             IF res.raise THEN set_joypad(@, TRUE) ELSE @]
             /\ host' = [host EXCEPT
                           !.calls_left = @ - 1,
                           !.last = [op |-> "apply",
                                     before |-> mem.io_registers.joypad,
                                     inputs |-> inputs, v |-> res.v,
                                     raise |-> res.raise]]
       IN  Commit(apply_input_to(mem.io_registers.joypad, inputs))
  /\ UNCHANGED <<cpu, ppu, build, outcome, hist, loop, dma, cart>>

----------------------------------------------------------------------------
(* lib.rs: Ruboy::start.  Each turn of the loop calls Cpu::run_cycle and    *)
(* then Ppu::run_cycle; an Err from either ends the loop.  loop.at is the   *)
(* call the loop makes next, loop.calls the calls made so far in the turn   *)
(* in progress, loop.last the calls of the last completed turn and          *)
(* loop.cycles the number of completed turns.                               *)

LoopNew == [at |-> "cpu", calls |-> <<>>, last |-> <<>>, cycles |-> 0]

\* line 136: self.cpu.run_cycle(&mut self.mem)?
LoopCpu ==
  /\ loop.at = "cpu"
  /\ RunCycle
  /\ loop' = [loop EXCEPT !.at = "ppu", !.calls = Append(@, "cpu")]

\* line 137: self.ppu.run_cycle(&mut self.mem)?, the last call of the turn
LoopPpu ==
  /\ loop.at = "ppu"
  /\ PpuRunCycle
  /\ loop' = [at |-> "cpu", calls |-> <<>>, last |-> Append(loop.calls, "ppu"),
              cycles |-> loop.cycles + 1]

----------------------------------------------------------------------------
(* rom/meta.rs and rom/controller/: the MBC1 mapper.  The ROM image is the  *)
(* file the RomReader reads; rom_bank_1x is modelled by the offset of the   *)
(* image its 0x4000 bytes were last read from.                              *)

\* RomController::None, the controller of the CPU and PPU runs
NoCart == [kind |-> "None"]

\* RomSize::in_bytes
RomSize_in_bytes(raw) == Pow2(15) * Pow2(raw)

\* RomSize::num_banks
RomSize_num_banks(raw) == RomSize_in_bytes(raw) \div (32 * 1024)

\* RamSize::in_bytes, for the values RamSize::try_from accepts
RamSize_in_bytes(raw) ==
  CASE raw = 0 -> 0
    [] raw = 2 -> 8 * 1024
    [] raw = 3 -> 32 * 1024
    [] raw = 4 -> 128 * 1024
    [] OTHER -> 64 * 1024

bank_num_to_addr(num) == 16384 * num

\* Mbc1::new for a header with these ROM and RAM size bytes
Mbc1New(rom_raw, ram_raw) ==
  [kind |-> "Mbc1", rom_size |-> rom_raw, ram_size |-> ram_raw,
   rom_bank_1x |-> bank_num_to_addr(1), ram_bank_x |-> EmptyCells,
   ram_enabled |-> FALSE, addressing_mode |-> "Mode0",
   selected_bank |-> 0, secondary_bank |-> 0]

\* The result of a call on the controller: the controller after it and how
\* the call ended.
CartOk(c) == [c |-> c, st |-> "ok", fault |-> NoFault]

CartErr(c, kind, code) == [c |-> c, st |-> "err", fault |-> Fault(kind, code)]

CartAbort(c, kind, code) == [c |-> c, st |-> "panic", fault |-> Fault(kind, code)]

\* Mbc1::switch_rom_bank: read_exact fails when the image ends before the
\* bank does
switch_rom_bank(c, bank) ==
  IF bank_num_to_addr(bank) + 16384 <= RomSize_in_bytes(c.rom_size)
  THEN CartOk([c EXCEPT !.rom_bank_1x = bank_num_to_addr(bank)])
  ELSE CartErr(c, "Reader", bank)

\* Mbc1::calc_rom_bank, whose two assertions hold of every value write stores
calc_rom_bank(c) ==
  (c.selected_bank + c.secondary_bank * 32) % RomSize_num_banks(c.rom_size)

\* Mbc1::write
Mbc1_write(c, addr, val) ==
  LET Switched(c2) ==
        IF c2.selected_bank > 31 \/ c2.secondary_bank > 3
        THEN CartAbort(c2, "assertion", addr)
        ELSE switch_rom_bank(c2, calc_rom_bank(c2))
  IN  CASE addr <= 8191 -> CartOk([c EXCEPT !.ram_enabled = (val % 16 = 10)])
        [] addr >= 8192 /\ addr <= 16383 ->
             Switched([c EXCEPT !.selected_bank =
                                   IF val % 32 = 0 THEN 1 ELSE val % 32])
        [] addr >= 16384 /\ addr <= 24575 ->
             IF RomSize_in_bytes(c.rom_size) >= 1024 * 1024
             THEN Switched([c EXCEPT !.secondary_bank = val % 4])
             ELSE CartOk(c)
        [] addr >= 24576 /\ addr <= 32767 ->
             CartOk([c EXCEPT !.addressing_mode =
                                IF val % 2 = 1 THEN "Mode1" ELSE "Mode0"])
        [] OTHER -> CartAbort(c, "not_a_rom_address", addr)

\* The ROM image of the cartridge runs: every bank differs from every other
\* at every offset.
RomImage(i) == (37 * (i \div 16384) + i) % 256

\* Mbc1::read
Mbc1_read(c, addr) ==
  CASE addr <= 16383 ->
         IF c.addressing_mode = "Mode0" THEN ReadOk(RomImage(addr))
         ELSE ReadAbort("unimplemented", addr)
    [] addr >= 16384 /\ addr <= 32767 ->
         ReadOk(RomImage(c.rom_bank_1x + (addr - 16384)))
    [] addr >= 40960 /\ addr <= 49151 ->
         IF RamSize_in_bytes(c.ram_size) = 0 THEN ReadErr("NotEnoughRam", addr)
         ELSE IF ~c.ram_enabled THEN ReadOk(255)
         ELSE IF c.addressing_mode = "Mode0"
              THEN ReadOk(CellGet(c.ram_bank_x, addr - 40960))
         ELSE ReadAbort("unimplemented", addr)
    [] OTHER -> ReadAbort("not_a_rom_address", addr)

\* CartridgeHardware::try_from: the mapper of a cartridge-type byte, "None"
\* for a cartridge without one, or "Err" for a byte outside the table
CartridgeHardware_try_from(value) ==
  CASE value \in {0, 8, 9, 252} -> "None"
    [] value \in {1, 2, 3} -> "MBC1"
    [] value \in {5, 6} -> "MBC2"
    [] value \in {11, 12, 13} -> "MMM01"
    [] value \in {15, 16, 17, 18, 19} -> "MBC3"
    [] value \in {25, 26, 27, 28, 29, 30} -> "MBC5"
    [] value = 32 -> "MBC6"
    [] value = 34 -> "MBC7"
    [] value = 254 -> "HuC3"
    [] value = 255 -> "HuC1"
    [] OTHER -> "Err"

\* RomSize::try_from, RamSize::try_from, Destination::try_from: is it Ok?
RomSize_try_from(value) == value <= 8

RamSize_try_from(value) == ~(value = 1 \/ value > 5)

Destination_try_from(value) == value <= 1

HEADER_LENGTH == 336 - 256

\* RomMeta::parse of header_len bytes with these four bytes at 0x147-0x14A:
\* every try_from is unwrapped
RomMeta_parse(header_len, rom) ==
  IF header_len < HEADER_LENGTH THEN [st |-> "err", fault |-> Fault("TooShort", header_len)]
  ELSE IF CartridgeHardware_try_from(rom.hardware) = "Err"
       THEN [st |-> "panic", fault |-> Fault("unwrap", 327)]
  ELSE IF ~RomSize_try_from(rom.rom_size)
       THEN [st |-> "panic", fault |-> Fault("unwrap", 328)]
  ELSE IF ~RamSize_try_from(rom.ram_size)
       THEN [st |-> "panic", fault |-> Fault("unwrap", 329)]
  ELSE IF ~Destination_try_from(rom.destination)
       THEN [st |-> "panic", fault |-> Fault("unwrap", 330)]
  ELSE OkOutcome

\* RomController::new on a ROM file of rom.len bytes: the result and the
\* controller built.  The header is read with read_exact, and so are the
\* 0x8000 bytes both controllers load.
RomController_new(rom) ==
  LET Built(mapper) ==
        IF mapper \notin {"None", "MBC1"}
        THEN [st |-> "panic", fault |-> Fault("todo", rom.hardware), c |-> NoCart]
        ELSE IF rom.len < 32768
        THEN [st |-> "err", fault |-> Fault("Read", rom.len), c |-> NoCart]
        ELSE [st |-> "ok", fault |-> NoFault,
              c |-> IF mapper = "MBC1" THEN Mbc1New(rom.rom_size, rom.ram_size)
                    ELSE NoCart]
      Parsed(res) ==
        IF res.st # "ok" THEN [st |-> res.st, fault |-> res.fault, c |-> NoCart]
        ELSE Built(CartridgeHardware_try_from(rom.hardware))
  IN  IF rom.len < 256 + HEADER_LENGTH
      THEN [st |-> "err", fault |-> Fault("Read", rom.len), c |-> NoCart]
      ELSE Parsed(RomMeta_parse(HEADER_LENGTH, rom))

\* Ruboy::new: MemController::new passes the result of RomController::new on
RuboyNew ==
  /\ outcome.st = "ok"
  /\ ~host.constructed
  /\ LET Commit(res) ==
           /\ outcome' = [st |-> res.st, fault |-> res.fault]
           /\ cart' = res.c
     IN  Commit(RomController_new(host.rom))
  /\ host' = [host EXCEPT !.constructed = TRUE]
  /\ UNCHANGED <<cpu, mem, ppu, build, hist, loop, dma>>

\* The addresses and values of the cartridge runs: one address in each range
\* Mbc1 decodes and, for ROM reads, both ends of the switchable bank.
CartWriteAddrs == {0, 8192, 16384, 24576, 40960}

CartReadAddrs == {0, 16384, 32767, 40960}

CartVals == {0, 3, 10}

\* What the host has asked of the cartridge so far: the last call and its
\* result, and the registers as the writes made define them.
CartHostNew(calls) ==
  [calls_left |-> calls, primary |-> 1, secondary |-> 0, latch |-> FALSE,
   stored |-> EmptyCells,
   last |-> [op |-> "none", addr |-> 0, val |-> 0, st |-> "ok", v |-> 0,
             enabled |-> FALSE, ram_kept |-> TRUE]]

CartNoted(h, addr, val) ==
  CASE addr <= 8191 -> [h EXCEPT !.latch = (val % 16 = 10)]
    [] addr >= 8192 /\ addr <= 16383 ->
         [h EXCEPT !.primary = IF val % 32 = 0 THEN 1 ELSE val % 32]
    [] addr >= 16384 /\ addr <= 24575 -> [h EXCEPT !.secondary = val % 4]
    [] addr >= 40960 /\ addr <= 49151 /\ h.latch ->
         [h EXCEPT !.stored = CellPut(@, addr, val)]
    [] OTHER -> h

\* A write of the CPU that reaches the cartridge (RomController::write)
CartWrite ==
  /\ outcome.st = "ok"
  /\ host.calls_left > 0
  /\ \E addr \in CartWriteAddrs, val \in CartVals :
       LET Commit(res) ==
             /\ cart' = res.c
             /\ outcome' = [st |-> res.st, fault |-> res.fault]
             /\ host' = [CartNoted(host, addr, val) EXCEPT
                           !.calls_left = @ - 1,
                           !.last = [op |-> "write", addr |-> addr, val |-> val,
                                     st |-> res.st, v |-> 0,
                                     enabled |-> host.latch,
                                     ram_kept |-> res.c.ram_bank_x = cart.ram_bank_x]]
       IN  Commit(Mbc1_write(cart, addr, val))
  /\ UNCHANGED <<cpu, mem, ppu, build, hist, loop, dma>>

\* A read of the CPU that reaches the cartridge (RomController::read)
CartRead ==
  /\ outcome.st = "ok"
  /\ host.calls_left > 0
  /\ \E addr \in CartReadAddrs :
       LET Commit(rd) ==
             /\ outcome' = [st |-> rd.st, fault |-> rd.fault]
             /\ host' = [host EXCEPT
                           !.calls_left = @ - 1,
                           !.last = [op |-> "read", addr |-> addr, val |-> 0,
                                     st |-> rd.st, v |-> rd.v,
                                     enabled |-> host.latch, ram_kept |-> TRUE]]
       IN  Commit(Mbc1_read(cart, addr))
  /\ UNCHANGED <<cpu, mem, ppu, build, hist, loop, dma, cart>>

----------------------------------------------------------------------------
(* Initial states of the CPU runs: a program in memory, a register file,    *)
(* IME/IE/IF, the build profile and the number of calls the host makes.     *)

\* bytes laid out from address base on, wrapping at 0xFFFF
CellsAt(base, bytes) ==
  [a \in {(base + k - 1) % 65536 : k \in 1..Len(bytes)} |->
     bytes[((a - base + 65536) % 65536) + 1]]

Merge(f, g) ==
  [x \in (DOMAIN f) \cup (DOMAIN g) |-> IF x \in DOMAIN f THEN f[x] ELSE g[x]]

Regs(a, f, b, c, d, e, h, l, sp, pc) ==
  [a |-> a, b |-> b, c |-> c, d |-> d, e |-> e, f |-> f, h |-> h, l |-> l,
   sp |-> sp, pc |-> pc]

Scenario(cells, r, ime, ie, ifl, chk, calls) ==
  [cells |-> cells, r |-> r, ime |-> ime, ie |-> ie, ifl |-> ifl,
   chk |-> chk, calls |-> calls]

\* Number of calls the host makes in each family of runs
MaxCallsOne  == 26
MaxCallsIrq  == 6
MaxCallsSeq  == 26
MaxCallsEdge == 14
MaxCallsPair == 46

ROM_BASE  == 1 * 256 + 80     \* 0x0150, cartridge ROM
WRAM_BASE == 193 * 256         \* 0xC100, work RAM
STACK_TOP == 208 * 256         \* 0xD000, work RAM

\* F = 0x90 (Z, C), BC = 0xC020, DE = 0xC030, HL = 0xC010
RegsA(pc) == Regs(58, 144, 192, 32, 192, 48, 192, 16, STACK_TOP, pc)

\* F = 0x60 (N, H), BC = 0x000F, DE = 0x8000, HL = 0xFF85
RegsB(pc) == Regs(255, 96, 0, 15, 128, 0, 255, 133, STACK_TOP, pc)

\* some data where the registers point, and a return address on the stack
DataCells ==
  Merge(CellsAt(49168, <<127, 255>>),
        Merge(CellsAt(STACK_TOP, <<82, 1>>), CellsAt(65413, <<240>>)))

\* Every opcode once, with two choices of the bytes that follow it, and
\* every 0xCB-prefixed opcode
OperandBytes == {<<5, 193>>, <<251, 0>>}

OneInstr ==
  {<<op, ob[1], ob[2]>> : op \in (0..255) \ {203}, ob \in OperandBytes}
    \cup {<<203, x, 0>> : x \in 0..255}

ScenariosOne ==
  {Scenario(Merge(CellsAt(ROM_BASE, prog), DataCells), r, FALSE, 0, 0, chk,
            MaxCallsOne) :
     prog \in OneInstr, r \in {RegsA(ROM_BASE), RegsB(ROM_BASE)}, chk \in BOOLEAN}

\* Interrupts: every IE/IF combination of the five sources, and some with
\* the unused upper bits set, checked after a Nop or after EI; Nop
IrqBitmaps == (0..31) \cup {224, 225, 255}

ScenariosIrq ==
  {Scenario(Merge(CellsAt(ROM_BASE, prog), DataCells), RegsA(ROM_BASE), ime,
            ie, ifl, FALSE, MaxCallsIrq) :
     prog \in {<<0>>, <<251, 0>>}, ime \in BOOLEAN,
     ie \in IrqBitmaps, ifl \in IrqBitmaps}

\* Sequences of three instructions among EI, DI, Nop, Reti and Inc B.  The
\* word on the stack is the address of the program's last byte.
SeqOps == {251, 243, 0, 217, 4}

ScenariosSeq ==
  {Scenario(Merge(CellsAt(ROM_BASE, <<p1, p2, p3, 0>>),
                  CellsAt(STACK_TOP, <<(ROM_BASE + 2) % 256, (ROM_BASE + 2) \div 256>>)),
            RegsA(ROM_BASE), ime, irq, irq, FALSE, MaxCallsSeq) :
     p1 \in SeqOps, p2 \in SeqOps, p3 \in SeqOps, ime \in BOOLEAN, irq \in {0, 1}}

\* Edges of the 16-bit address space: programs at 0x0000, 0xFFFD, 0xFFFE and
\* 0xFFFF (where the opcode is the IE register), SP and HL at both ends.
EdgeProgs ==
  {<<197>>, <<193>>, <<34>>, <<50>>, <<42>>, <<58>>, <<0>>, <<205, 0, 193>>,
   <<199>>, <<201>>, <<24, 5>>, <<24, 253>>, <<32, 253>>, <<35>>, <<43>>,
   <<62, 7>>, <<195, 0, 193>>}

EdgeBases == {0, 65533, 65534, 65535, ROM_BASE}

\* <<SP, HL>>
EdgePointers ==
  {<<0, 0>>, <<1, 65535>>, <<65534, 0>>, <<65535, 65535>>, <<STACK_TOP, WRAM_BASE>>}

ScenariosEdge ==
  {Scenario(CellsAt(base, prog),
            Regs(58, 0, 18, 52, 86, 120, ptr[2] \div 256, ptr[2] % 256, ptr[1], base),
            FALSE, IF base = 65535 THEN prog[1] ELSE 0, 0, chk, MaxCallsEdge) :
     prog \in EdgeProgs, base \in EdgeBases, ptr \in EdgePointers, chk \in BOOLEAN}

\* Push r; Pop r for the four register pairs, and Pop AF; Push AF; Pop AF
\* with and without a Push BC before it, with the stack in work RAM or at
\* the top of high RAM.
PairProgs ==
  {<<197, 193>>, <<213, 209>>, <<229, 225>>, <<245, 241>>,
   <<241, 245, 241>>, <<197, 241, 245, 241>>}

PairStacks == {STACK_TOP, 57342, 65534}

ScenariosPair ==
  {Scenario(Merge(CellsAt(ROM_BASE, prog), DataCells),
            [r EXCEPT !.sp = sp], FALSE, 0, 0, chk, MaxCallsPair) :
     prog \in PairProgs, r \in {RegsA(ROM_BASE), RegsB(ROM_BASE)},
     sp \in PairStacks, chk \in BOOLEAN}

Scenarios ==
  ScenariosOne \cup ScenariosIrq \cup ScenariosSeq \cup ScenariosEdge
    \cup ScenariosPair

InitCpu ==
  \E sc \in Scenarios :
    /\ cpu = [CpuNew EXCEPT !.registers = sc.r, !.interrupts_master = sc.ime]
    /\ mem = [MemNew EXCEPT !.cells = sc.cells, !.interrupts_enabled = sc.ie,
                            !.io_registers.interrupts_requested = sc.ifl]
    /\ ppu = PpuNew
    /\ build = [overflow_checks |-> sc.chk]
    /\ outcome = OkOutcome
    /\ hist = HistNew
    /\ host = [calls_left |-> sc.calls, frames |-> 0, ppu_cycles |-> 0, vblanks |-> 0]
    /\ loop = LoopNew
    /\ dma = DMAControllerNew
    /\ cart = NoCart

NextCpu == RunCycle /\ UNCHANGED loop

SpecCpu == InitCpu /\ [][NextCpu]_vars

----------------------------------------------------------------------------
(* Initial states of the PPU runs: the LCD has just been enabled (LCDC bit  *)
(* 7 raised, the PPU still Inactive, LY = 0) with some scroll, OAM and VRAM *)
(* content; the host then calls Ppu::run_cycle a fixed number of times.     *)

\* Number of calls the host makes: one frame and the start of the next
MaxPpuCalls == 70700

\* OAM contents: entry number and its four bytes (the rest of OAM is zero)
OamEntry(n, bytes) == CellsAt(OAM_START + (4 * n), bytes)

\* an object on lines 0..7 at x = 8
OamLine0 == OamEntry(0, <<16, 16, 1, 0>>)

\* an object on lines 100..107 at x = 42
OamLine100 == OamEntry(5, <<116, 50, 255, 160>>)

\* two objects on lines 0..7 that never meet the pixel counter: one right of
\* the screen, one in the hidden column
OamHidden ==
  Merge(OamEntry(2, <<16, 200, 1, 0>>), OamEntry(3, <<16, 8, 1, 0>>))

\* a tile map that names tiles 1 and 255, with the data of both tiles
VramTiles ==
  Merge(CellsAt(38912, <<1, 255, 1>>),
        Merge(CellsAt(39936, <<255, 1>>),
              Merge(CellsAt(32768 + 16, <<60, 126, 255, 0, 129, 66, 36, 24,
                                        165, 195, 0, 255, 240, 15, 1, 2>>),
                    CellsAt(36864 - 16, <<15, 240, 85, 170, 1, 128, 255, 255,
                                        51, 204, 0, 0, 255, 1, 7, 224>>))))

PpuScenario(scx, scy, lcdc, cells, chk) ==
  [scx |-> scx, scy |-> scy, lcdc |-> lcdc, cells |-> cells, chk |-> chk]

\* No object in OAM: three scroll settings in both build profiles, the
\* zeroed VRAM with LCDC = 0x80 or the tiles with LCDC = 0x9C.  Objects in
\* OAM: each of the three contents, and the first also when overflow is
\* checked.
PpuScenarios ==
  {PpuScenario(0, 0, 128, EmptyCells, chk) : chk \in BOOLEAN}
    \cup {PpuScenario(3, 5, 128 + 28, VramTiles, chk) : chk \in BOOLEAN}
    \cup {PpuScenario(255, 255, 128 + 28, VramTiles, chk) : chk \in BOOLEAN}
    \cup {PpuScenario(3, 5, 128 + 28, Merge(oam, VramTiles), FALSE) :
            oam \in {OamLine0, OamLine100, OamHidden}}
    \cup {PpuScenario(0, 0, 128, OamLine0, TRUE)}

InitPpu ==
  \E sc \in PpuScenarios :
    /\ cpu = CpuNew
    /\ mem = [MemNew EXCEPT !.cells = sc.cells,
                            !.io_registers.lcd_control = sc.lcdc,
                            !.io_registers.scx = sc.scx,
                            !.io_registers.scy = sc.scy,
                            !.io_registers.bg_palette = 228,
                            !.io_registers.obj0_palette = 27]
    /\ ppu = PpuNew
    /\ build = [overflow_checks |-> sc.chk]
    /\ outcome = OkOutcome
    /\ hist = HistNew
    /\ host = [calls_left |-> MaxPpuCalls, frames |-> 0, ppu_cycles |-> 0,
               vblanks |-> 0]
    /\ loop = LoopNew
    /\ dma = DMAControllerNew
    /\ cart = NoCart

NextPpu == PpuRunCycle /\ UNCHANGED loop

SpecPpu == InitPpu /\ [][NextPpu]_vars

----------------------------------------------------------------------------
(* The end of a frame: runs that start where the runs of SpecPpu with a     *)
(* blank screen (LCDC = 0x80, no scroll, empty VRAM and OAM) stand after    *)
(* 143 scanlines, at the first cycle of line 143, and go on through VBlank  *)
(* into the next frame.                                                     *)

\* Number of calls the host makes: the last visible line, the ten lines of
\* VBlank and the start of the next frame
MaxLateCalls == 5100

\* Ppu after 143 * 456 calls on a blank screen
PpuAtLine143 ==
  [PpuNew EXCEPT
     !.mode = "OAMScan",
     !.scan = OAMScanDataNew,
     !.frame_data = [cur_cycle |-> 143 * SCANLINE_CYCLES, win_y_reached |-> TRUE],
     !.pix_fetcher.phase = PhaseSleep(<<0, 0, 0, 0, 0, 0, 0, 0>>),
     !.framebuf = [x |-> FRAME_X - 1, y |-> 142, color |-> "White", bg |-> 0,
                  obj |-> <<>>]]

\* MemController after 143 * 456 calls on a blank screen
MemAtLine143 ==
  [MemNew EXCEPT !.io_registers.lcd_control = 128,
                 !.io_registers.lcd_y = 143,
                 !.io_registers.bg_palette = 228,
                 !.io_registers.obj0_palette = 27,
                 !.oam_open = FALSE]

InitPpuLate ==
  \E chk \in BOOLEAN :
    /\ cpu = CpuNew
    /\ mem = MemAtLine143
    /\ ppu = PpuAtLine143
    /\ build = [overflow_checks |-> chk]
    /\ outcome = OkOutcome
    /\ hist = HistNew
    /\ host = [calls_left |-> MaxLateCalls, frames |-> 0,
               ppu_cycles |-> 143 * SCANLINE_CYCLES, vblanks |-> 0]
    /\ loop = LoopNew
    /\ dma = DMAControllerNew
    /\ cart = NoCart

SpecPpuLate == InitPpuLate /\ [][NextPpu]_vars

----------------------------------------------------------------------------
(* The top-level loop: the CPU spins on JR -2 in cartridge ROM, so that no  *)
(* instruction writes to memory; the runs differ in the timer registers,    *)
(* in whether the LCD is on and in the build profile.                       *)

\* Number of calls the loop makes: two per turn, more than 256 turns
MaxLoopCalls == 560

SpinProgram == CellsAt(ROM_BASE, <<24, 254>>)

\* TAC, TIMA and TMA at the start
TimerSettings ==
  {[tac |-> 0, tima |-> 0, tma |-> 0], [tac |-> 5, tima |-> 0, tma |-> 0],
   [tac |-> 5, tima |-> 255, tma |-> 171], [tac |-> 7, tima |-> 255, tma |-> 171]}

InitLoop ==
  \E tm \in TimerSettings, lcdc \in {0, 128}, chk \in BOOLEAN :
    /\ cpu = [CpuNew EXCEPT !.registers = RegsA(ROM_BASE)]
    /\ mem = [MemNew EXCEPT !.cells = SpinProgram,
                            !.io_registers.timer_control = tm.tac,
                            !.io_registers.timer_counter = tm.tima,
                            !.io_registers.timer_modulo = tm.tma,
                            !.io_registers.lcd_control = lcdc]
    /\ ppu = PpuNew
    /\ build = [overflow_checks |-> chk]
    /\ outcome = OkOutcome
    /\ hist = HistNew
    /\ host = [calls_left |-> MaxLoopCalls, frames |-> 0, ppu_cycles |-> 0,
               vblanks |-> 0, timer |-> tm]
    /\ loop = LoopNew
    /\ dma = DMAControllerNew
    /\ cart = NoCart

NextLoop == LoopCpu \/ LoopPpu

SpecLoop == InitLoop /\ [][NextLoop]_vars

\* SpecPpu reaches the state SpecPpuLate starts from
Line143Reached ==
  /\ ppu = PpuAtLine143
  /\ mem = MemAtLine143
  /\ host.ppu_cycles = 143 * SCANLINE_CYCLES
  /\ host.frames = 0
  /\ host.vblanks = 0

----------------------------------------------------------------------------
(* The cartridge runs: an MBC1 cartridge of 32 KiB, 64 KiB or 1 MiB of ROM, *)
(* without RAM or with 8 KiB of it, and a few reads and writes of the CPU.  *)

MaxCartCalls == 3

InitCart ==
  \E rom_raw \in {0, 1, 5}, ram_raw \in {0, 2} :
    /\ cpu = CpuNew
    /\ mem = MemNew
    /\ ppu = PpuNew
    /\ build = [overflow_checks |-> TRUE]
    /\ outcome = OkOutcome
    /\ hist = HistNew
    /\ host = CartHostNew(MaxCartCalls)
    /\ loop = LoopNew
    /\ dma = DMAControllerNew
    /\ cart = Mbc1New(rom_raw, ram_raw)

NextCart == CartWrite \/ CartRead

SpecCart == InitCart /\ [][NextCart]_vars

----------------------------------------------------------------------------
(* The boot-overlay runs: a crate built with or without the boot image, a   *)
(* cartridge whose first bytes differ from the boot image's, and a few      *)
(* reads and writes of the CPU through MemController.                       *)

MaxBootCalls == 5

\* bytes of the boot image and of the cartridge at the addresses read
BootImage == (0 :> 49) @@ (254 :> 80)

BootCartridge == (0 :> 195) @@ (254 :> 1) @@ (255 :> 2)

BootWriteAddrs == {0, 65344, 65360}

BootReadAddrs == {0, 254, 255}

BootVals == {0, 1, 128}

\* host.latched: a non-zero value has been written to 0xFF50; host.rezero: a
\* zero has been written there since
\* host.write_addrs, host.read_addrs and host.vals are the addresses and the
\* values the program of the run uses.  host.div_fresh: DIV was written and
\* has not been incremented since; host.ticks_left bounds the increments.
MemHostNew(calls, write_addrs, read_addrs, vals) ==
  [calls_left |-> calls, latched |-> FALSE, rezero |-> FALSE,
   div_fresh |-> FALSE, ticks_left |-> 0,
   write_addrs |-> write_addrs, read_addrs |-> read_addrs, vals |-> vals,
   last |-> [op |-> "none", addr |-> 0, val |-> 0, st |-> "ok", v |-> 0,
             before |-> MemNew]]

\* MemController::write8 called by the CPU
MemWrite8 ==
  /\ outcome.st = "ok"
  /\ host.calls_left > 0
  /\ \E addr \in host.write_addrs, val \in host.vals :
       LET Commit(final) ==
             /\ mem' = final.mem
             /\ outcome' = [st |-> final.st, fault |-> final.fault]
             /\ host' = [host EXCEPT
                           !.calls_left = @ - 1,
                           !.latched = @ \/ (addr = 65360 /\ val # 0),
                           !.rezero = @ \/ (host.latched /\ addr = 65360 /\ val = 0),
                           !.div_fresh = @ \/ (addr = 65284 /\ final.st = "ok"),
                           !.last = [op |-> "write", addr |-> addr, val |-> val,
                                     st |-> final.st, v |-> 0, before |-> mem]]
       IN  Commit(write8([mem |-> mem, st |-> "ok", fault |-> NoFault], addr, val))
  /\ UNCHANGED <<cpu, ppu, build, hist, loop, dma, cart>>

\* MemController::read8 called by the CPU
MemRead8 ==
  /\ outcome.st = "ok"
  /\ host.calls_left > 0
  /\ \E addr \in host.read_addrs :
       LET Commit(rd) ==
             /\ outcome' = [st |-> rd.st, fault |-> rd.fault]
             /\ host' = [host EXCEPT
                           !.calls_left = @ - 1,
                           !.last = [op |-> "read", addr |-> addr, val |-> 0,
                                     st |-> rd.st, v |-> rd.v, before |-> mem]]
       IN  Commit(read8(mem, addr))
  /\ UNCHANGED <<cpu, mem, ppu, build, hist, loop, dma, cart>>

InitBoot ==
  \E feature \in BOOLEAN :
    /\ cpu = CpuNew
    /\ mem = [MemNew EXCEPT !.cells = BootCartridge, !.boot = BootImage,
                            !.io_registers.boot_rom_enabled = feature]
    /\ ppu = PpuNew
    /\ build = [overflow_checks |-> TRUE]
    /\ outcome = OkOutcome
    /\ hist = HistNew
    /\ host = MemHostNew(MaxBootCalls, BootWriteAddrs, BootReadAddrs, BootVals)
    /\ loop = LoopNew
    /\ dma = DMAControllerNew
    /\ cart = NoCart

NextBoot == MemWrite8 \/ MemRead8

SpecBoot == InitBoot /\ [][NextBoot]_vars

----------------------------------------------------------------------------
(* The DMA runs: a few writes to 0xFF46 at any time and the controller's    *)
(* cycles, for as long as a transfer is in flight and a few cycles more.    *)

MaxDmaRequests == 2

MaxDmaIdle == 1

DmaMemory ==
  Merge(CellsAt(0, <<1, 2, 3>>),
        Merge(CellsAt(32768, <<4, 5>>), CellsAt(49152, <<6, 7>>)))

InitDma ==
  \E chk \in BOOLEAN :
    /\ cpu = CpuNew
    /\ mem = [MemNew EXCEPT !.cells = DmaMemory]
    /\ ppu = PpuNew
    /\ build = [overflow_checks |-> chk]
    /\ outcome = OkOutcome
    /\ hist = HistNew
    /\ host = DmaHostNew(MaxDmaRequests, MaxDmaIdle)
    /\ loop = LoopNew
    /\ dma = DMAControllerNew
    /\ cart = NoCart

NextDma == DmaRequest \/ DmaCycle

SpecDma == InitDma /\ [][NextDma]_vars

----------------------------------------------------------------------------
(* The joypad runs: the program selects key groups and the keys held change *)
(* from one application to the next.                                        *)

MaxJoypadCalls == 3

InitJoypad ==
  /\ cpu = CpuNew
  /\ mem = MemNew
  /\ ppu = PpuNew
  /\ build = [overflow_checks |-> TRUE]
  /\ outcome = OkOutcome
  /\ hist = HistNew
  /\ host = JoypadHostNew(MaxJoypadCalls)
  /\ loop = LoopNew
  /\ dma = DMAControllerNew
  /\ cart = NoCart

NextJoypad == JoypadSelect \/ JoypadApply

SpecJoypad == InitJoypad /\ [][NextJoypad]_vars

----------------------------------------------------------------------------
(* The memory-map runs: reads and writes of the CPU at both ends of echo    *)
(* RAM and of the prohibited range, and in work RAM and high RAM.           *)

MaxMemCalls == 3

\* 0xC000, 0xE000, 0xFDFF, 0xFEA0, 0xFEFF, 0xFF80
MemAddrs == {49152, 57344, 65023, 65184, 65279, 65408}

MemVals == {0, 127, 255}

InitMem ==
  /\ cpu = CpuNew
  /\ mem = MemNew
  /\ ppu = PpuNew
  /\ build = [overflow_checks |-> TRUE]
  /\ outcome = OkOutcome
  /\ hist = HistNew
  /\ host = MemHostNew(MaxMemCalls, MemAddrs, MemAddrs, MemVals)
  /\ loop = LoopNew
  /\ dma = DMAControllerNew
  /\ cart = NoCart

SpecMem == InitMem /\ [][NextBoot]_vars

----------------------------------------------------------------------------
(* Construction: ROM files of several lengths with several values of the    *)
(* cartridge-type, ROM-size, RAM-size and destination bytes.                *)

RomFiles ==
  [len : {335, 336, 32768}, hardware : {0, 1, 4, 5, 25, 255},
   rom_size : {0, 8, 9}, ram_size : {0, 1, 2, 6}, destination : {0, 1, 2}]

InitNew ==
  \E rom \in RomFiles :
    /\ cpu = CpuNew
    /\ mem = MemNew
    /\ ppu = PpuNew
    /\ build = [overflow_checks |-> TRUE]
    /\ outcome = OkOutcome
    /\ hist = HistNew
    /\ host = [rom |-> rom, constructed |-> FALSE]
    /\ loop = LoopNew
    /\ dma = DMAControllerNew
    /\ cart = NoCart

SpecNew == InitNew /\ [][RuboyNew]_vars

----------------------------------------------------------------------------
(* The OAM-scan runs: one scan, on line 0 after the LCD was enabled or on   *)
(* line 143, with 8- or 16-line objects and several OAM contents.           *)

\* Number of calls: the scan of one line and the first cycles of Draw
MaxScanCalls == 84

\* twelve objects on line 0, more than the buffer takes
OamCrowd ==
  [a \in {OAM_START + k : k \in 0..47} |->
     CASE (a - OAM_START) % 4 = 0 -> 16
       [] (a - OAM_START) % 4 = 1 -> 20 + ((a - OAM_START) \div 4)
       [] OTHER -> 0]

\* objects on line 0 with x-pos bytes 0, 5, 8 and 9, then one above the line
\* and one below it
OamColumns ==
  Merge(OamEntry(0, <<16, 0, 0, 0>>),
    Merge(OamEntry(1, <<16, 5, 0, 0>>),
      Merge(OamEntry(2, <<16, 8, 0, 0>>),
        Merge(OamEntry(3, <<16, 9, 0, 0>>),
          Merge(OamEntry(4, <<8, 30, 0, 0>>), OamEntry(39, <<17, 40, 0, 0>>))))))

\* objects around line 143: its last line with 8 lines, its last line with
\* 16 lines only, its first line, and one that starts on line 144
OamBottom ==
  Merge(OamEntry(1, <<152, 30, 0, 0>>),
    Merge(OamEntry(7, <<144, 40, 0, 0>>),
      Merge(OamEntry(20, <<159, 50, 0, 0>>), OamEntry(39, <<160, 60, 0, 0>>))))

ScanOams == {OamCrowd, OamColumns, OamBottom}

InitScan ==
  \E late \in BOOLEAN, tall \in BOOLEAN, oam \in ScanOams :
    /\ cpu = CpuNew
    /\ mem = [(IF late THEN MemAtLine143
               ELSE [MemNew EXCEPT !.io_registers.lcd_control = 128]) EXCEPT
                !.cells = oam,
                !.io_registers.lcd_control = @ + (IF tall THEN 4 ELSE 0)]
    /\ ppu = IF late THEN PpuAtLine143 ELSE PpuNew
    /\ build = [overflow_checks |-> TRUE]
    /\ outcome = OkOutcome
    /\ hist = HistNew
    /\ host = [calls_left |-> MaxScanCalls, frames |-> 0,
               ppu_cycles |-> IF late THEN 143 * SCANLINE_CYCLES ELSE 0,
               vblanks |-> 0]
    /\ loop = LoopNew
    /\ dma = DMAControllerNew
    /\ cart = NoCart

SpecScan == InitScan /\ [][NextPpu]_vars

----------------------------------------------------------------------------
(* The scanline runs: the first lines after the LCD was enabled, and line   *)
(* 143, the ten lines of VBlank and the start of the next frame, on a blank *)
(* screen or with objects that never meet the pixel counter.                *)

InitLine ==
  \E late \in BOOLEAN, chk \in BOOLEAN, oam \in {EmptyCells, OamHidden} :
    /\ cpu = CpuNew
    /\ mem = [(IF late THEN MemAtLine143
               ELSE [MemNew EXCEPT !.io_registers.lcd_control = 128,
                                   !.io_registers.bg_palette = 228,
                                   !.io_registers.obj0_palette = 27]) EXCEPT
                !.cells = oam]
    /\ ppu = IF late THEN PpuAtLine143 ELSE PpuNew
    /\ build = [overflow_checks |-> chk]
    /\ outcome = OkOutcome
    /\ hist = HistNew
    /\ host = [calls_left |-> MaxLateCalls, frames |-> 0,
               ppu_cycles |-> IF late THEN 143 * SCANLINE_CYCLES ELSE 0,
               vblanks |-> 0]
    /\ loop = LoopNew
    /\ dma = DMAControllerNew
    /\ cart = NoCart

SpecLine == InitLine /\ [][NextPpu]_vars

(* The object runs: one object of 16 lines at the top of the screen, eight  *)
(* pixels from the left edge, with the data of tile 255 over a background   *)
(* of tile 1, with each setting of its BG-priority and palette flags.       *)

\* two scanlines
MaxMixCalls == 912

\* OAM flags bytes: bit 7 is the BG-priority flag, bit 4 the palette
MixFlags == {0, 16, 128, 144}

\* vertical scroll: the object's row over the same and over another row of
\* the background tile
MixScrolls == {0, 2}

InitMix ==
  \E flags \in MixFlags, scy \in MixScrolls :
    /\ cpu = CpuNew
    /\ mem = [MemNew EXCEPT
                !.cells = Merge(OamEntry(0, <<16, 16, 255, flags>>), VramTiles),
                !.io_registers.lcd_control = 128 + 28,
                !.io_registers.scy = scy,
                !.io_registers.bg_palette = 228,
                !.io_registers.obj0_palette = 27,
                !.io_registers.obj1_palette = 78]
    /\ ppu = PpuNew
    /\ build = [overflow_checks |-> TRUE]
    /\ outcome = OkOutcome
    /\ hist = HistNew
    /\ host = [calls_left |-> MaxMixCalls, frames |-> 0, ppu_cycles |-> 0,
               vblanks |-> 0]
    /\ loop = LoopNew
    /\ dma = DMAControllerNew
    /\ cart = NoCart

SpecMix == InitMix /\ [][NextPpu]_vars

(* The background runs: a tile map whose row r names tile r + 1 in every    *)
(* column, and tiles whose row k has the low byte k + 1, so that the tile   *)
(* index and the low byte the fetcher holds tell the map row and the tile   *)
(* row it read.  The runs start when the LCD is enabled or on line 143,     *)
(* with some vertical scroll.                                               *)

\* one scanline and the first fetches of the next
MaxFetchCalls == 560

FetchScrolls == {0, 5, 113, 255}

\* the tile map at 0x9800
FetchMap == [a \in 38912..39935 |-> ((a - 38912) \div 32) + 1]

\* the low bytes of the rows of tiles 1..32, addressed from 0x9000
FetchTiles ==
  [a \in {36864 + (16 * t) + (2 * k) : t \in 1..32, k \in 0..7} |->
     (((a - 36864) % 16) \div 2) + 1]

InitFetch ==
  \E late \in BOOLEAN, chk \in BOOLEAN, scy \in FetchScrolls :
    /\ cpu = CpuNew
    /\ mem = [(IF late THEN MemAtLine143
               ELSE [MemNew EXCEPT !.io_registers.lcd_control = 128,
                                   !.io_registers.bg_palette = 228,
                                   !.io_registers.obj0_palette = 27]) EXCEPT
                !.cells = Merge(FetchMap, FetchTiles),
                !.io_registers.scy = scy]
    /\ ppu = IF late THEN PpuAtLine143 ELSE PpuNew
    /\ build = [overflow_checks |-> chk]
    /\ outcome = OkOutcome
    /\ hist = HistNew
    /\ host = [calls_left |-> MaxFetchCalls, frames |-> 0,
               ppu_cycles |-> IF late THEN 143 * SCANLINE_CYCLES ELSE 0,
               vblanks |-> 0]
    /\ loop = LoopNew
    /\ dma = DMAControllerNew
    /\ cart = NoCart

SpecFetch == InitFetch /\ [][NextPpu]_vars

(* The arithmetic runs: one instruction among SUB n, CP n, DEC A, ADC A,n   *)
(* and ADD HL,BC with the registers, the operand and the Carry flag drawn   *)
(* from sets that hold the borders of the nibbles and of the bytes.         *)

MaxAluCalls == 2

AluBytes == {0, 1, 2, 14, 15, 16, 17, 31, 127, 128, 240, 254, 255}

AluWords == {0, 1, 255, 256, 2048, 4095, 4096, 32768, 61440, 65535}

\* SUB n, CP n, DEC A, ADC A,n
AluByteOps == {214, 254, 61, 206}

\* ADD HL,BC
AluWordOp == 9

\* F holds the Carry flag c, and Zero and HalfCarry set so that an
\* instruction that leaves a flag untouched is told from one that clears it
AluScenarios ==
  {Scenario(CellsAt(ROM_BASE, <<op, v>>),
            Regs(a, 160 + (16 * c), 0, 0, 0, 0, 0, 0, STACK_TOP, ROM_BASE),
            FALSE, 0, 0, chk, MaxAluCalls) :
     op \in AluByteOps, a \in AluBytes, v \in AluBytes, c \in {0, 1},
     chk \in BOOLEAN}
    \cup
  {Scenario(CellsAt(ROM_BASE, <<AluWordOp, 0>>),
            Regs(0, 160, addend \div 256, addend % 256, 0, 0, w \div 256, w % 256,
                 STACK_TOP, ROM_BASE),
            FALSE, 0, 0, chk, MaxAluCalls) :
     w \in AluWords, addend \in AluWords, chk \in BOOLEAN}

InitAlu ==
  \E sc \in AluScenarios :
    /\ cpu = [CpuNew EXCEPT !.registers = sc.r, !.interrupts_master = sc.ime]
    /\ mem = [MemNew EXCEPT !.cells = sc.cells, !.interrupts_enabled = sc.ie,
                            !.io_registers.interrupts_requested = sc.ifl]
    /\ ppu = PpuNew
    /\ build = [overflow_checks |-> sc.chk]
    /\ outcome = OkOutcome
    /\ hist = HistNew
    /\ host = [calls_left |-> sc.calls, frames |-> 0, ppu_cycles |-> 0, vblanks |-> 0]
    /\ loop = LoopNew
    /\ dma = DMAControllerNew
    /\ cart = NoCart

SpecAlu == InitAlu /\ [][NextCpu]_vars

(* The divider runs: the program writes and reads DIV (0xFF04) and TIMA     *)
(* (0xFF05) while the timer increments DIV.                                 *)

MaxDivCalls == 4

MaxDivTicks == 3

DivAddrs == {65284, 65285}

DivVals == {0, 7, 255}

\* The timer's increment of DIV, one every 256 T-cycles, wrapping at 256
TimerDiv ==
  /\ outcome.st = "ok"
  /\ host.ticks_left > 0
  /\ mem' = [mem EXCEPT !.io_registers.timer_div = (@ + 1) % 256]
  /\ host' = [host EXCEPT !.ticks_left = @ - 1, !.div_fresh = FALSE]
  /\ UNCHANGED <<cpu, ppu, build, outcome, hist, loop, dma, cart>>

InitDiv ==
  /\ cpu = CpuNew
  /\ mem = MemNew
  /\ ppu = PpuNew
  /\ build = [overflow_checks |-> TRUE]
  /\ outcome = OkOutcome
  /\ hist = HistNew
  /\ host = [MemHostNew(MaxDivCalls, DivAddrs, DivAddrs, DivVals) EXCEPT
               !.ticks_left = MaxDivTicks]
  /\ loop = LoopNew
  /\ dma = DMAControllerNew
  /\ cart = NoCart

NextDiv == MemWrite8 \/ MemRead8 \/ TimerDiv

SpecDiv == InitDiv /\ [][NextDiv]_vars

(* The interrupt registers: the program writes and reads IF (0xFF0F) and    *)
(* IE (0xFFFF) while some interrupts, raised by the hardware, are pending.  *)

MaxIfCalls == 3

IfAddrs == {65295, 65535}

IfVals == {0, 1, 21, 255}

IfPending == {0, 1, 4, 31}

InitIf ==
  \E pending \in IfPending :
    /\ cpu = CpuNew
    /\ mem = [MemNew EXCEPT !.io_registers.interrupts_requested = pending]
    /\ ppu = PpuNew
    /\ build = [overflow_checks |-> TRUE]
    /\ outcome = OkOutcome
    /\ hist = HistNew
    /\ host = MemHostNew(MaxIfCalls, IfAddrs, IfAddrs, IfVals)
    /\ loop = LoopNew
    /\ dma = DMAControllerNew
    /\ cart = NoCart

NextIf == MemWrite8 \/ MemRead8

SpecIf == InitIf /\ [][NextIf]_vars

(* The drawing runs: the first two scanlines and the start of the third     *)
(* after the LCD was enabled, over the tiles, with some horizontal scroll   *)
(* and no object, one object, two objects that never meet the pixel         *)
(* counter, twelve objects side by side, or three objects in two columns.   *)

MaxDrawCalls == 1000

DrawScrolls == {0, 3}

\* two objects at x = 8, one of them flipped, and a third at x = 16
OamStack ==
  Merge(OamEntry(0, <<16, 16, 1, 0>>),
        Merge(OamEntry(1, <<16, 16, 255, 32>>), OamEntry(2, <<16, 24, 1, 0>>)))

DrawOams == {EmptyCells, OamLine0, OamHidden, OamCrowd, OamStack}

InitDraw ==
  \E scx \in DrawScrolls, oam \in DrawOams, chk \in BOOLEAN :
    /\ cpu = CpuNew
    /\ mem = [MemNew EXCEPT !.cells = Merge(oam, VramTiles),
                            !.io_registers.lcd_control = 128 + 28,
                            !.io_registers.scx = scx,
                            !.io_registers.bg_palette = 228,
                            !.io_registers.obj0_palette = 27]
    /\ ppu = PpuNew
    /\ build = [overflow_checks |-> chk]
    /\ outcome = OkOutcome
    /\ hist = HistNew
    /\ host = [calls_left |-> MaxDrawCalls, frames |-> 0, ppu_cycles |-> 0,
               vblanks |-> 0]
    /\ loop = LoopNew
    /\ dma = DMAControllerNew
    /\ cart = NoCart

SpecDraw == InitDraw /\ [][NextPpu]_vars

(* The LCD switch runs: the program writes LCDC (0xFF40) with the enable     *)
(* bit flipped between two PPU cycles, at some points of a scanline.        *)

MaxLcdCalls == 600

MaxLcdWrites == 2

\* PPU cycles after which the program may write LCDC: in the scan, in Draw,
\* in HBlank and on the second line
LcdWriteTimes == {40, 100, 300, 500}

\* MemController::write8 of LCDC with bit 7 flipped, called by the CPU
LcdWriteAt(times) ==
  /\ outcome.st = "ok"
  /\ host.writes_left > 0
  /\ host.ppu_cycles \in times
  /\ LET Commit(final) ==
           /\ mem' = final.mem
           /\ outcome' = [st |-> final.st, fault |-> final.fault]
           /\ host' = [host EXCEPT !.writes_left = @ - 1,
                                   !.switched = IF lcd_ppu_enable(mem)
                                                THEN "off" ELSE "on"]
         val == IF lcd_ppu_enable(mem)
                THEN mem.io_registers.lcd_control - 128
                ELSE mem.io_registers.lcd_control + 128
     IN  Commit(write8([mem |-> mem, st |-> "ok", fault |-> NoFault], 65344, val))
  /\ UNCHANGED <<cpu, ppu, build, hist, loop, dma, cart>>

LcdWrite == LcdWriteAt(LcdWriteTimes)

InitLcd ==
  \E chk \in BOOLEAN :
    /\ cpu = CpuNew
    /\ mem = [MemNew EXCEPT !.io_registers.lcd_control = 128,
                            !.io_registers.bg_palette = 228]
    /\ ppu = PpuNew
    /\ build = [overflow_checks |-> chk]
    /\ outcome = OkOutcome
    /\ hist = HistNew
    /\ host = [calls_left |-> MaxLcdCalls, frames |-> 0, ppu_cycles |-> 0,
               vblanks |-> 0, writes_left |-> MaxLcdWrites, switched |-> "no"]
    /\ loop = LoopNew
    /\ dma = DMAControllerNew
    /\ cart = NoCart

NextLcd ==
  \/ NextPpu
  \/ LcdWrite /\ UNCHANGED loop

SpecLcd == InitLcd /\ [][NextLcd]_vars

(* The switching runs.  A long run starts with the LCD off, as constructed, *)
(* and may switch it on; it lasts until the first line of VBlank.  The late *)
(* runs start at line 143 and go through VBlank into the next frame; the    *)
(* program may switch the LCD off and on again and write to LY (0xFF44),    *)
(* on line 143, on line 144 and on line 152.                                *)

MaxTogLongCalls == 66300

MaxTogLateCalls == 5100

MaxTogWrites == 2

MaxTogRegs == 1

TogLongTimes == {100}

TogLateTimes == {65508, 65900, 69700}

TogRegTimes == {65900}

TogRegVals == {0, 200}

TogScenarios ==
  {[late |-> FALSE, chk |-> TRUE, calls |-> MaxTogLongCalls, writes |-> 1,
    regs |-> 0, tog_times |-> TogLongTimes]}
  \cup {[late |-> TRUE, chk |-> c, calls |-> MaxTogLateCalls,
         writes |-> MaxTogWrites, regs |-> MaxTogRegs,
         tog_times |-> TogLateTimes] : c \in BOOLEAN}

\* MemController::write8 of LCDC with bit 7 flipped, at the times of the run
LcdToggle == LcdWriteAt(host.tog_times)

\* MemController::write8 of LY called by the CPU
LyWrite ==
  /\ outcome.st = "ok"
  /\ host.regs_left > 0
  /\ host.ppu_cycles \in TogRegTimes
  /\ \E val \in TogRegVals :
       LET Commit(final) ==
             /\ mem' = final.mem
             /\ outcome' = [st |-> final.st, fault |-> final.fault]
             /\ host' = [host EXCEPT !.regs_left = @ - 1]
       IN  Commit(write8([mem |-> mem, st |-> "ok", fault |-> NoFault], 65348, val))
  /\ UNCHANGED <<cpu, ppu, build, hist, loop, dma, cart>>

InitTog ==
  \E sc \in TogScenarios :
    /\ cpu = CpuNew
    /\ mem = IF sc.late THEN MemAtLine143
             ELSE [MemNew EXCEPT !.io_registers.bg_palette = 228]
    /\ ppu = IF sc.late THEN PpuAtLine143 ELSE PpuNew
    /\ build = [overflow_checks |-> sc.chk]
    /\ outcome = OkOutcome
    /\ hist = HistNew
    /\ host = [calls_left |-> sc.calls, frames |-> 0,
               ppu_cycles |-> IF sc.late THEN 143 * SCANLINE_CYCLES ELSE 0,
               vblanks |-> 0, writes_left |-> sc.writes, switched |-> "no",
               regs_left |-> sc.regs, tog_times |-> sc.tog_times]
    /\ loop = LoopNew
    /\ dma = DMAControllerNew
    /\ cart = NoCart

NextTog ==
  \/ NextPpu
  \/ LcdToggle /\ UNCHANGED loop
  \/ LyWrite /\ UNCHANGED loop

SpecTog == InitTog /\ [][NextTog]_vars

----------------------------------------------------------------------------
(* ppu/inlinequeue.rs as it is stored: InlineQueue<T, N> is an array of N   *)
(* slots, each None (<<>>) or Some(x) (<<x>>), and the count cur_elements.  *)

\* Capacity N of the queue of the runs
QueueSize == 3

\* Largest number of elements one push_n or pop_n moves
MaxQueueMove == 2

\* Number of operations of a run
MaxQueueOps == 5

QueueElems == {1, 2}

\* InlineQueue::new
InlineQueue_new ==
  [data |-> [i \in 0..(QueueSize - 1) |-> <<>>], cur_elements |-> 0]

\* InlineQueue::clear
InlineQueue_clear(q) ==
  [data |-> [i \in 0..(QueueSize - 1) |-> <<>>], cur_elements |-> 0]

\* InlineQueue::len
InlineQueue_len(q) == q.cur_elements

\* InlineQueue::space_remaining
InlineQueue_space_remaining(q) == QueueSize - InlineQueue_len(q)

\* InlineQueue::push_n (push is push_n of one element): [ok, q]
InlineQueue_push_n(q, elems) ==
  LET init_len == InlineQueue_len(q) IN
  IF InlineQueue_len(q) + Len(elems) > QueueSize THEN [ok |-> FALSE, q |-> q]
  ELSE [ok |-> TRUE,
        q |-> [data |-> [i \in 0..(QueueSize - 1) |->
                           IF i >= init_len /\ i < init_len + Len(elems)
                           THEN <<elems[i - init_len + 1]>> ELSE q.data[i]],
               cur_elements |-> q.cur_elements + Len(elems)]]

\* The loop of pop_n from index i on: slot i is taken and stored n slots
\* lower; the debug assertion fails when the slot stored is None
RECURSIVE ShiftDown(_, _, _, _, _)
ShiftDown(d, i, n, length, debug) ==
  IF i >= length \/ d.panic THEN d
  ELSE ShiftDown([data |-> [d.data EXCEPT ![i] = <<>>, ![i - n] = d.data[i]],
                  panic |-> debug /\ d.data[i] = <<>>],
                 i + 1, n, length, debug)

\* InlineQueue::pop_n with no move of the elements that stay
InlineQueue_pop_n_unmoved(q, n, debug) ==
  LET length == InlineQueue_len(q)
      taken  == [i \in 0..(QueueSize - 1) |-> IF i < n THEN <<>> ELSE q.data[i]]
  IN  IF length < n THEN [ok |-> FALSE, panic |-> FALSE, buf |-> <<>>, q |-> q]
      ELSE IF \E i \in 0..(n - 1) : q.data[i] = <<>>
      THEN [ok |-> FALSE, panic |-> TRUE, buf |-> <<>>, q |-> q]
      ELSE [ok |-> TRUE, panic |-> FALSE,
            buf |-> [i \in 1..n |-> q.data[i - 1][1]],
            q |-> [data |-> taken, cur_elements |-> q.cur_elements - n]]

\* InlineQueue::pop_n (pop is pop_n of one element): [ok, panic, buf, q];
\* the unwrap of a None slot aborts
InlineQueue_pop_n(q, n, debug) ==
  LET length == InlineQueue_len(q)
      taken  == [i \in 0..(QueueSize - 1) |-> IF i < n THEN <<>> ELSE q.data[i]]
      Moved(d) ==
        IF d.panic THEN [ok |-> FALSE, panic |-> TRUE, buf |-> <<>>, q |-> q]
        ELSE [ok |-> TRUE, panic |-> FALSE,
              buf |-> [i \in 1..n |-> q.data[i - 1][1]],
              q |-> [data |-> d.data, cur_elements |-> q.cur_elements - n]]
  IN  IF length < n THEN [ok |-> FALSE, panic |-> FALSE, buf |-> <<>>, q |-> q]
      ELSE IF \E i \in 0..(n - 1) : q.data[i] = <<>>
      THEN [ok |-> FALSE, panic |-> TRUE, buf |-> <<>>, q |-> q]
      ELSE Moved(ShiftDown([data |-> taken, panic |-> FALSE], n, n, length, debug))

(* The queue runs: pushes, pops and clears in any order on a queue of       *)
(* QueueSize slots.  host.q is the queue, host.seq the sequence of the      *)
(* elements it should hold, kept by the rules of a bounded sequence.        *)

NoQueueOp ==
  [op |-> "none", n |-> 0, elems |-> <<>>, ok |-> TRUE, buf |-> <<>>,
   q |-> InlineQueue_new, seq |-> <<>>]

QueuePush ==
  /\ outcome.st = "ok"
  /\ host.ops_left > 0
  /\ \E n \in 1..MaxQueueMove : \E elems \in [1..n -> QueueElems] :
       LET Commit(res) ==
             /\ host' = [ops_left |-> host.ops_left - 1,
                         q |-> res.q,
                         seq |-> IF Len(host.seq) + n <= QueueSize
                                 THEN host.seq \o elems ELSE host.seq,
                         last |-> [op |-> "push", n |-> n, elems |-> elems,
                                   ok |-> res.ok, buf |-> <<>>,
                                   q |-> host.q, seq |-> host.seq]]
             /\ outcome' = outcome
       IN  Commit(InlineQueue_push_n(host.q, elems))
  /\ UNCHANGED <<cpu, mem, ppu, build, hist, loop, dma, cart>>

QueuePop ==
  /\ outcome.st = "ok"
  /\ host.ops_left > 0
  /\ \E n \in 0..MaxQueueMove :
       LET Commit(res) ==
             /\ host' = [ops_left |-> host.ops_left - 1,
                         q |-> res.q,
                         seq |-> IF Len(host.seq) >= n
                                 THEN SubSeq(host.seq, n + 1, Len(host.seq))
                                 ELSE host.seq,
                         last |-> [op |-> "pop", n |-> n, elems |-> <<>>,
                                   ok |-> res.ok, buf |-> res.buf,
                                   q |-> host.q, seq |-> host.seq]]
             /\ outcome' = IF res.panic
                           THEN [st |-> "panic", fault |-> Fault("unwrap", 0)]
                           ELSE outcome
       IN  Commit(InlineQueue_pop_n(host.q, n, build.overflow_checks))
  /\ UNCHANGED <<cpu, mem, ppu, build, hist, loop, dma, cart>>

QueueClear ==
  /\ outcome.st = "ok"
  /\ host.ops_left > 0
  /\ host' = [ops_left |-> host.ops_left - 1,
              q |-> InlineQueue_clear(host.q),
              seq |-> <<>>,
              last |-> [NoQueueOp EXCEPT !.op = "clear", !.q = host.q,
                                         !.seq = host.seq]]
  /\ UNCHANGED <<cpu, mem, ppu, build, outcome, hist, loop, dma, cart>>

InitQueue ==
  \E chk \in BOOLEAN :
    /\ cpu = CpuNew
    /\ mem = MemNew
    /\ ppu = PpuNew
    /\ build = [overflow_checks |-> chk]
    /\ outcome = OkOutcome
    /\ hist = HistNew
    /\ host = [ops_left |-> MaxQueueOps, q |-> InlineQueue_new, seq |-> <<>>,
               last |-> NoQueueOp]
    /\ loop = LoopNew
    /\ dma = DMAControllerNew
    /\ cart = NoCart

NextQueue == QueuePush \/ QueuePop \/ QueueClear

SpecQueue == InitQueue /\ [][NextQueue]_vars

----------------------------------------------------------------------------
(* Properties of the CPU, checked under SpecCpu                             *)

\* The last call decoded an instruction, ran its arm to the end and reached
\* the interrupt check
Completed(e) == e.kind = "instr" /\ e.executed /\ e.checked

\* The 16-bit word stored little-endian at addr
WordAt(addr) ==
  CellGet(mem.cells, addr) + 256 * CellGet(mem.cells, (addr + 1) % 65536)

\* The index of the lowest set bit among the low five bits of x
HighestPriority(x) ==
  CHOOSE k \in 0..4 : BitAt(x, k) = 1 /\ \A j \in 0..4 : j < k => BitAt(x, j) = 0

HandlerOf(k) == 64 + 8 * k

\* C1: at an instruction boundary with IME set and (IE & IF & 0x1F) # 0 the
\* CPU services the highest-priority pending interrupt: the call returns
\* normally with IME cleared, only that interrupt's bit cleared in IF, the
\* current PC pushed and PC at the interrupt's handler (0x40 + 8 * bit).
C1_DispatchPriority ==
  LET e       == hist.last
      pending == BitAnd(BitAnd(e.chk.ie, e.chk.ifl), 31)
      k       == HighestPriority(pending)
  IN  (Completed(e) /\ e.chk.interrupts_master /\ pending # 0) =>
        /\ outcome.st = "ok"
        /\ ~cpu.interrupts_master
        /\ mem.io_registers.interrupts_requested = e.chk.ifl - Pow2(k)
        /\ cpu.registers.sp = wrapping_sub(16, e.chk.r.sp, 2)
        /\ WordAt(cpu.registers.sp) = e.chk.r.pc
        /\ cpu.registers.pc = HandlerOf(k)

\* C2: EI takes effect one instruction late.  The step of an EI that found
\* nothing queued sets ei_queued and leaves IME as it was (so with IME clear
\* it dispatches nothing); the step that finds ei_queued set clears it and
\* has IME set once its instruction has executed; and IME never rises in a
\* step other than that one or a Reti.
C2_EiDelay ==
  LET e == hist.last IN
  Completed(e) =>
    /\ (e.instr.op = "EI" /\ ~e.pre.ei_queued) =>
          /\ e.chk.ei_queued
          /\ e.chk.interrupts_master = e.pre.interrupts_master
          /\ (~e.pre.interrupts_master => ~e.dispatched)
    /\ e.pre.ei_queued =>
          /\ e.chk.interrupts_master
          /\ ~e.chk.ei_queued
          /\ ~cpu.ei_queued
    /\ (~e.pre.interrupts_master /\ e.chk.interrupts_master) =>
          (e.pre.ei_queued \/ e.instr.op = "Reti")
    /\ (~e.pre.ei_queued /\ e.instr.op # "EI") => ~e.chk.ei_queued

\* C2 witness: an EI executed with IME clear, and the instruction after it
\* has just run: IME was raised at its end and the pending interrupt taken.
C2_Witness ==
  /\ hist.prev.kind = "instr" /\ hist.prev.instr.op = "EI"
  /\ ~hist.prev.pre.interrupts_master /\ ~hist.prev.dispatched
  /\ Completed(hist.last) /\ hist.last.instr.op = "Nop"
  /\ hist.last.chk.interrupts_master /\ hist.last.dispatched
  /\ outcome.st = "ok" /\ cpu.registers.pc = 64

\* C3: an instruction is decoded in a call iff cycles_remaining was 0 on
\* entry, and otherwise the call only decrements cycles_remaining; after an
\* instruction of cycle count c (taken iff it jumped) with no interrupt
\* dispatched cycles_remaining = c - 1; Nop leaves 3 and Jump 0xC3 leaves 15
\* with PC at its target.
C3_CycleAccounting ==
  LET e == hist.last
      c == IF e.jumped THEN cycles(e.instr).taken ELSE cycles(e.instr).non_taken
  IN  /\ e.kind = "wait" =>
            /\ e.pre.cycles_remaining # 0
            /\ cpu.cycles_remaining = e.pre.cycles_remaining - 1
            /\ cpu.registers = e.pre.r
            /\ cpu.interrupts_master = e.pre.interrupts_master
            /\ cpu.ei_queued = e.pre.ei_queued
            /\ mem = e.pre.mem
            /\ outcome.st = "ok"
      /\ e.kind = "instr" => e.pre.cycles_remaining = 0
      /\ (Completed(e) /\ ~e.dispatched) =>
            /\ cpu.cycles_remaining = c - 1
            /\ c \in {4, 8, 12, 16, 20, 24}
            /\ e.opcode = 0 => cpu.cycles_remaining = 3
            /\ e.opcode = 195 =>
                  cpu.cycles_remaining = 15 /\ cpu.registers.pc = e.instr.x.n

\* C3 witness: a Jump 0xC3 has occupied its sixteen calls: the fifteenth
\* waiting call has just brought cycles_remaining back to 0 at the target.
C3_Witness ==
  /\ hist.last.kind = "wait" /\ hist.last.pre.cycles_remaining = 1
  /\ hist.prev.opcode = 195 /\ Completed(hist.prev)
  /\ cpu.cycles_remaining = 0
  /\ cpu.registers.pc = hist.prev.instr.x.n
  /\ host.calls_left = MaxCallsOne - 16

\* The target of an instruction that jumped, from the state before it
JumpTarget(e) ==
  CASE e.instr.op \in {"Jump", "JumpIf", "Call", "CallIf", "Rst"} -> e.instr.x.n
    [] e.instr.op = "JumpHL" -> e.pre.r.h * 256 + e.pre.r.l
    [] e.instr.op \in {"JumpRel", "JumpRelIf"} ->
         (e.pre.r.pc + 2 + e.instr.x.n + 65536) % 65536
    [] OTHER -> WordAt(e.pre.r.sp)

\* C4: after a legal instruction fetched at p that does not jump, PC = p + L
\* where L = 1 + the number of immediate operand bytes (2 for a CB-prefixed
\* instruction), i.e. the bytes the decoder consumed; an instruction that
\* jumps leaves PC at its target.
C4_PcAdvance ==
  LET e == hist.last IN
  (Completed(e) /\ ~e.dispatched) =>
     cpu.registers.pc =
       IF e.jumped THEN JumpTarget(e) ELSE (e.pre.r.pc + e.instr.nb) % 65536

\* C5: in every reachable CPU state the low four bits of F are zero.
C5_FLowNibbleZero == cpu.registers.f % 16 = 0

\* C6: executing any legal instruction other than Halt and Stop returns
\* normally (a result or a typed error), never aborting as unimplemented.
C6_Exhaustive ==
  LET e == hist.last IN
  (e.kind = "instr" /\ e.decoded /\ e.instr.op \notin {"Halt", "Stop"}) =>
     ~(outcome.st = "panic" /\ outcome.fault.kind = "todo")

IllegalOpcodes == {211, 219, 221, 227, 228, 235, 236, 237, 244, 252, 253}

\* C7: when the byte at PC is one of the eleven illegal opcodes, decode
\* yields Illegal(opcode) with that byte and the step returns the error
\* CpuErr::Illegal(opcode) (an error value, not an abort).
C7_IllegalOpcodes ==
  LET e == hist.last IN
  (e.kind = "instr" /\ e.opcode \in IllegalOpcodes) =>
     /\ e.decoded
     /\ e.instr.op = "IllegalInstruction" /\ e.instr.x.n = e.opcode
     /\ outcome = [st |-> "err", fault |-> Fault("Illegal", e.opcode)]
     /\ cpu.registers = e.pre.r

\* C7 witness: the step at opcode 0xFD has returned Illegal(0xFD)
C7_Witness ==
  /\ hist.last.kind = "instr" /\ hist.last.opcode = 253
  /\ outcome.st = "err" /\ outcome.fault = Fault("Illegal", 253)

\* C8: 16-bit CPU arithmetic wraps and never faults: no push, pop, HL
\* post-increment or post-decrement, PC advance, return-address computation
\* or relative jump ends the call with an arithmetic fault.
C8_WrapNeverFaults ==
  hist.last.kind = "instr" =>
    ~(outcome.st = "panic" /\ outcome.fault.kind \in {"overflow_u16", "unwrap"})

\* C9: Push(r) immediately followed by Pop(r) leaves r, SP and the four
\* flags as they were before the Push; for r = AF, F's low nibble is zero
\* afterwards.
C9_PushPopIdentity ==
  LET p == hist.prev
      q == hist.last
      r == p.instr.x.r
      before == [r |-> p.pre.r]
      after  == [r |-> cpu.registers]
  IN  (/\ Completed(p) /\ p.instr.op = "Push" /\ ~p.dispatched
       /\ Completed(q) /\ q.instr.op = "Pop" /\ ~q.dispatched
       /\ q.instr.x = p.instr.x) =>
        /\ cpu.registers.sp = p.pre.r.sp
        /\ cpu.registers.f \div 16 = p.pre.r.f \div 16
        /\ IF r = "AF"
           THEN cpu.registers.a = p.pre.r.a /\ cpu.registers.f % 16 = 0
           ELSE get_reg16_value(after, r) = get_reg16_value(before, r)

----------------------------------------------------------------------------
(* Properties of the PPU, checked under SpecPpu                             *)

\* C10: from the call that finds the LCD just enabled with LY = 0, no call
\* of the PPU fails, LY has been incremented once for every 456 calls made
\* (wrapping to 0 after 154 lines), and the graphics sink has received one
\* frame for every 70224 calls made, whatever VRAM, OAM and the scroll
\* registers hold.
C10_FrameTiming ==
  /\ outcome.st = "ok"
  /\ mem.io_registers.lcd_y =
       (host.ppu_cycles \div SCANLINE_CYCLES) % (FRAME_Y + 10)
  /\ host.frames = host.ppu_cycles \div (SCANLINE_CYCLES * (FRAME_Y + 10))

\* C11: the sink has received the framebuffer once for every time the PPU
\* has entered VBlank (the call in which LY becomes 144), neither earlier
\* nor later: the hand-off happens in the call that enters VBlank and not
\* again before the next entry.
C11_FrameAtVBlankEntry == host.frames = host.vblanks

\* C12: once a call has incremented LY to 144 the PPU is in VBlank mode and
\* the VBlank bit of IF has been set by that same call (nothing in these runs
\* clears IF).
C12_VBlankRequested ==
  mem.io_registers.lcd_y = FRAME_Y =>
    /\ ppu.mode = "VBlank"
    /\ vblank(mem.io_registers.interrupts_requested)

----------------------------------------------------------------------------
(* Properties of the top-level loop, checked under SpecLoop                 *)

\* C13: every completed turn of the loop has made exactly these calls, in
\* this order: joypad application, one CPU cycle, one PPU cycle, one DMA
\* cycle.
C13_CycleOrder ==
  loop.cycles > 0 => loop.last = <<"joypad", "cpu", "ppu", "dma">>

\* T-cycles per TIMA increment selected by TAC bits 1-0
TimaPeriod(tac) ==
  CASE tac % 4 = 0 -> 1024
    [] tac % 4 = 1 -> 16
    [] tac % 4 = 2 -> 64
    [] OTHER -> 256

\* TIMA after k increments from tima with reload value tma, for k small
\* enough that TIMA overflows at most once
TimaAfter(tima, tma, k) ==
  IF k < 256 - tima THEN tima + k ELSE tma + (k - (256 - tima))

\* C14: after n CPU cycles in which no instruction writes a timer register,
\* DIV has been incremented n / 256 times; TIMA has been incremented once
\* per period of TAC bits 1-0 if TAC bit 2 is set and not at all if it is
\* clear; and an overflow of TIMA has reloaded it from TMA and set bit 2 of
\* IF.
C14_TimerAdvances ==
  loop.at = "cpu" =>
    LET n   == loop.cycles
        tm  == host.timer
        on  == BitAt(tm.tac, 2) = 1
        k   == IF on THEN n \div TimaPeriod(tm.tac) ELSE 0
        io  == mem.io_registers
    IN  /\ io.timer_div = (n \div 256) % 256
        /\ io.timer_counter = TimaAfter(tm.tima, tm.tma, k)
        /\ (k >= 256 - tm.tima) => BitAt(io.interrupts_requested, 2) = 1

----------------------------------------------------------------------------
(* Properties of the MBC1 mapper, checked under SpecCart                    *)

\* Number of 16 KiB banks in a ROM image of the given size byte
Banks16K(raw) == RomSize_in_bytes(raw) \div 16384

\* C15: a read of an address a in 0x4000-0x7FFF succeeds and returns byte
\* a - 0x4000 of bank ((secondary << 5) | primary) mod N of the image, where
\* primary is the low 5 bits of the last value written to 0x2000-0x3FFF with
\* 0 read as 1 (1 before any write), secondary the low 2 bits of the last
\* value written to 0x4000-0x5FFF, and N the number of 16 KiB banks.
C15_BankSelected ==
  (host.last.op = "read" /\ host.last.addr >= 16384 /\ host.last.addr <= 32767) =>
    /\ host.last.st = "ok"
    /\ host.last.v =
         RomImage(16384 * ((host.secondary * 32 + host.primary) % Banks16K(cart.rom_size))
                  + (host.last.addr - 16384))

\* C16: RAM is enabled iff the last value written to 0x0000-0x1FFF had low
\* nibble 0xA; while it is disabled a read of 0xA000-0xBFFF returns 0xFF and
\* a write there succeeds and leaves the RAM as it was; while it is enabled
\* a write there succeeds and a read returns the value last written to the
\* address.
C16_RamGate ==
  LET l == host.last
      ram == l.addr >= 40960 /\ l.addr <= 49151
  IN  /\ cart.ram_enabled = host.latch
      /\ (l.op = "read" /\ ram /\ ~l.enabled) => (l.st = "ok" /\ l.v = 255)
      /\ (l.op = "write" /\ ram) => l.st = "ok"
      /\ (l.op = "write" /\ ram /\ ~l.enabled) => l.ram_kept
      /\ (l.op = "read" /\ ram /\ l.enabled /\ l.addr \in DOMAIN host.stored) =>
           (l.st = "ok" /\ l.v = host.stored[l.addr])

----------------------------------------------------------------------------
(* Properties of the boot overlay, checked under SpecBoot                   *)

\* C17: once a non-zero value has been written to 0xFF50 the overlay is
\* disabled, whatever has been written since (zero to 0xFF50 included), and
\* a read of 0x0000-0x00FE returns the cartridge's byte.
C17_BootLatch ==
  host.latched =>
    /\ ~mem.io_registers.boot_rom_enabled
    /\ (host.last.op = "read" /\ host.last.addr <= 254) =>
         /\ host.last.st = "ok"
         /\ host.last.v = BootCartridge[host.last.addr]

\* the crate has the boot image, the overlay was switched off, zero was
\* written to 0xFF50 afterwards, and address 0 has just been read
C17_Witness ==
  /\ host.latched
  /\ host.rezero
  /\ mem.boot = BootImage
  /\ host.last.op = "read"
  /\ host.last.addr = 0
  /\ host.last.v = 195

----------------------------------------------------------------------------
(* Properties of the DMA controller, checked under SpecDma                  *)

\* C18: a request whose command was created while a transfer was in flight
\* leaves the controller as it was (data, destination and remaining cycles
\* of the transfer in flight), and nothing is queued behind the transfer:
\* every accepted request is either in flight or delivered, and the call
\* that delivers a transfer leaves the controller empty.
C18_SecondRequestIgnored ==
  /\ (host.last.op = "request" /\ outcome.st = "ok" /\ host.last.before.oam # <<>>) =>
       dma = host.last.before
  /\ Len(host.delivered) + (IF dma.oam = <<>> THEN 0 ELSE 1) = host.accepted

\* a request for another page was made halfway through a transfer
C18_Witness ==
  /\ host.last.op = "request"
  /\ outcome.st = "ok"
  /\ host.last.before.oam # <<>>
  /\ host.last.before.oam[1].cycles = 320
  /\ host.last.command.data # host.last.before.oam[1].data

\* C19: every write of v to 0xFF46 creates, without fault, a command of 640
\* cycles with destination 0xFE00 and the 256 bytes at v << 8; an idle
\* controller accepts it; the transfer in flight has run for fewer than 640
\* cycles and has 640 less that many left; every delivered command was
\* delivered by the 640th cycle after it was accepted, once, and the
\* controller is empty after the call that delivers it.
C19_DmaLifecycle ==
  LET l == host.last
  IN  /\ l.op = "request" =>
           /\ outcome.st = "ok"
           /\ l.command.cycles = 640
           /\ l.command.target_address = 65024
           /\ Len(l.command.data) = 256
           /\ \A k \in 1..Len(l.command.data) :
                l.command.data[k] = read8(mem, l.val * 256 + k - 1).v
           /\ l.before.oam = <<>> => dma.oam = <<l.command>>
      /\ dma.oam # <<>> =>
           (host.age < 640 /\ dma.oam[1].cycles = 640 - host.age)
      /\ \A i \in 1..Len(host.delivered) : host.delivered[i].age = 640
      /\ Len(host.delivered) + (IF dma.oam = <<>> THEN 0 ELSE 1) = host.accepted
      /\ (l.op = "cycle" /\ l.before.oam # <<>> /\ l.before.oam[1].cycles = 1) =>
           dma.oam = <<>>

----------------------------------------------------------------------------
(* Properties of the joypad mixer, checked under SpecJoypad                 *)

\* C20: when exactly one key group is selected and some bit of the low
\* nibble is 1 in the register and 0 in the value computed for that group,
\* the mixer requests the joypad interrupt, whatever the other bits of the
\* low nibble were.
C20_JoypadEdge ==
  LET l == host.last
      one_group == BitAt(l.before, 4) # BitAt(l.before, 5)
  IN  (/\ l.op = "apply"
       /\ one_group
       /\ \E i \in 0..3 : BitAt(l.before, i) = 1 /\ BitAt(l.v, i) = 0) =>
        /\ l.raise
        /\ joypad(mem.io_registers.interrupts_requested)

----------------------------------------------------------------------------
(* Properties of the memory map, checked under SpecMem                      *)

\* C21: a read or a write of an address in echo RAM (0xE000-0xFDFF) or in
\* the prohibited range (0xFEA0-0xFEFF) ends without an error and without
\* an abort; the read yields a byte and the write leaves the memory and the
\* registers as they were.
C21_UnmappedAccess ==
  LET l == host.last
      unmapped == \/ (l.addr >= 57344 /\ l.addr <= 65023)
                  \/ (l.addr >= 65184 /\ l.addr <= 65279)
  IN  (l.op \in {"read", "write"} /\ unmapped) =>
        /\ l.st = "ok"
        /\ l.v \in 0..255
        /\ mem = l.before

----------------------------------------------------------------------------
(* Properties of construction, checked under SpecNew                        *)

\* C22: construction from a ROM file whose header is cut short, whose
\* cartridge-type, ROM-size, RAM-size or destination byte is outside the
\* defined values, or whose mapper is neither none nor MBC1, returns an
\* error value and does not abort.
C22_InitErrors ==
  LET rom == host.rom
      bad == \/ rom.len < 336
             \/ CartridgeHardware_try_from(rom.hardware) \notin {"None", "MBC1"}
             \/ rom.rom_size > 8
             \/ rom.ram_size = 1 \/ rom.ram_size > 5
             \/ rom.destination > 1
  IN  (host.constructed /\ bad) => outcome.st = "err"

----------------------------------------------------------------------------
(* Properties of the OAM scan, checked under SpecScan                       *)

\* The candidate buffer after the first n OAM entries, by the rule of the
\* claim
RECURSIVE Candidates(_, _)
Candidates(m, n) ==
  IF n = 0 THEN <<>>
  ELSE LET obj == ObjectData(read_range(m, OAM_START + (4 * (n - 1)), 4))
           ly == m.io_registers.lcd_y
           height == IF BitAt(m.io_registers.lcd_control, 2) = 1 THEN 16 ELSE 8
           Next(prev) ==
             IF /\ Len(prev) < 10
                /\ obj.x_pos > 0
                /\ ly + 16 >= obj.y_pos
                /\ ly + 16 < obj.y_pos + height
             THEN Append(prev, obj) ELSE prev
       IN  Next(Candidates(m, n - 1))

\* C23: during the scan the buffer holds, in OAM order, the entries scanned
\* so far that were met with fewer than 10 buffered, have an x-pos byte
\* above 0 and cover the line (LY + 16 >= y-pos and LY + 16 < y-pos +
\* height); it never holds more than 10.
C23_ScanSelects ==
  ppu.mode = "OAMScan" =>
    /\ Len(ppu.scan.buffer) <= 10
    /\ ppu.scan.buffer = Candidates(mem, ppu.scan.cur_obj_index)

----------------------------------------------------------------------------
(* Properties of the scanline, checked under SpecLine                       *)

\* C24: no call fails, and on a visible line the mode after the n-th call of
\* the line is OAMScan for n = 1..80 and Draw for n = 81, and it is OAMScan
\* at no later call of the line: the scan takes the 80 line cycles 0..79
\* and Draw begins with line cycle 80, on the line after the LCD was
\* enabled, on the lines that follow an HBlank and on the line that follows
\* VBlank.  (A line has 456 calls; n is counted by the host.)
C24_ScanLength ==
  LET n == host.ppu_cycles % SCANLINE_CYCLES
  IN  /\ outcome.st = "ok"
      /\ (ppu.mode # "Inactive" /\ mem.io_registers.lcd_y < FRAME_Y) =>
           /\ ppu.line_data.cur_cycle = n
           /\ (n \in 1..OAM_CYCLES) => ppu.mode = "OAMScan"
           /\ (n = OAM_CYCLES + 1) => ppu.mode = "Draw"
           /\ (ppu.mode = "OAMScan") => n <= OAM_CYCLES

\* Draw has just begun on line 0 of the frame that follows a VBlank
C24_Witness ==
  /\ host.frames = 1
  /\ mem.io_registers.lcd_y = 0
  /\ ppu.mode = "Draw"
  /\ host.ppu_cycles % SCANLINE_CYCLES = OAM_CYCLES + 1

----------------------------------------------------------------------------
(* Properties of the CPU-visibility flags, checked under SpecLcd            *)

\* C25: in every state VRAM is closed to the CPU exactly in Draw, and OAM is
\* closed exactly in OAMScan and Draw; both are open in HBlank, VBlank and
\* Inactive, also after the LCD was switched off within a scanline and on
\* the first scanline after it was switched on.
C25_Visibility ==
  /\ mem.vram_open = (ppu.mode # "Draw")
  /\ mem.oam_open = (ppu.mode \notin {"OAMScan", "Draw"})

----------------------------------------------------------------------------
(* Properties of the pixel mixer, checked under SpecMix                     *)

----------------------------------------------------------------------------
(* Properties of the background fetch, checked under SpecFetch              *)

\* C27: no call faults, and in Draw the tile index the fetcher holds was
\* read from row ((SCY + LY) mod 256) / 8 of the tile map (inside the 32x32
\* map) and the low byte it holds is that of row (SCY + LY) mod 8 of the
\* tile.
C27_BgFetch ==
  LET io  == mem.io_registers
      f   == ppu.pix_fetcher
      sum == io.scy + io.lcd_y
  IN  /\ outcome.st = "ok"
      /\ (ppu.mode = "Draw" /\ f.phase.k = "FetchDataLow") =>
           f.phase.tile_idx = ((sum % 256) \div 8) + 1
      /\ (ppu.mode = "Draw" /\ f.phase.k = "FetchDataHigh") =>
           /\ f.phase.tile_idx = ((sum % 256) \div 8) + 1
           /\ f.phase.lower = (sum % 8) + 1

----------------------------------------------------------------------------
(* Properties of the arithmetic instructions, checked under SpecAlu         *)

\* The byte that follows the opcode of the instruction of entry e
OperandOf(e) == CellGet(e.pre.mem.cells, (e.pre.r.pc + 1) % 65536)

FlagOf(f, bit) == BitAt(f, bit) = 1

\* C28: after SUB n, CP n and DEC A (v = 1) HalfCarry is set iff the low
\* nibble of A is below the low nibble of v, Subtract is set, and DEC leaves
\* Carry as it was.
C28_SubHalfCarry ==
  LET e == hist.last
      a == e.pre.r.a
      v == IF e.opcode = 61 THEN 1 ELSE OperandOf(e)
      f == cpu.registers.f
  IN  (e.kind = "instr" /\ e.opcode \in {214, 254, 61}) =>
        /\ Completed(e)
        /\ FlagOf(f, HALFCARRY_BIT) = ((a % 16) < (v % 16))
        /\ FlagOf(f, SUBTRACT_BIT)
        /\ e.opcode = 61 => FlagOf(f, CARRY_BIT) = FlagOf(e.pre.r.f, CARRY_BIT)

\* C29: ADC A,n with carry-in c completes without fault and leaves
\* A = (A + v + c) mod 256, Zero iff that is 0, Subtract clear, HalfCarry iff
\* the low nibbles and c sum above 0xF, and Carry iff A + v + c > 0xFF.
C29_AddCarry ==
  LET e   == hist.last
      a   == e.pre.r.a
      v   == OperandOf(e)
      c   == BitAt(e.pre.r.f, CARRY_BIT)
      f   == cpu.registers.f
  IN  (e.kind = "instr" /\ e.opcode = 206) =>
        /\ Completed(e) /\ outcome.st = "ok"
        /\ cpu.registers.a = (a + v + c) % 256
        /\ FlagOf(f, ZERO_BIT) = ((a + v + c) % 256 = 0)
        /\ ~FlagOf(f, SUBTRACT_BIT)
        /\ FlagOf(f, HALFCARRY_BIT) = ((a % 16) + (v % 16) + c > 15)
        /\ FlagOf(f, CARRY_BIT) = (a + v + c > 255)

\* C30: ADD HL,BC leaves HL = (HL + BC) mod 2^16, Zero iff that is 0,
\* Subtract clear, HalfCarry iff the low 12 bits sum above 0x0FFF, and Carry
\* iff HL + BC > 0xFFFF.
C30_AddHL ==
  LET e   == hist.last
      w   == (e.pre.r.h * 256) + e.pre.r.l
      v   == (e.pre.r.b * 256) + e.pre.r.c
      f   == cpu.registers.f
  IN  (e.kind = "instr" /\ e.opcode = AluWordOp) =>
        /\ Completed(e)
        /\ (cpu.registers.h * 256) + cpu.registers.l = (w + v) % 65536
        /\ FlagOf(f, ZERO_BIT) = ((w + v) % 65536 = 0)
        /\ ~FlagOf(f, SUBTRACT_BIT)
        /\ FlagOf(f, HALFCARRY_BIT) = ((w % 4096) + (v % 4096) > 4095)
        /\ FlagOf(f, CARRY_BIT) = (w + v > 65535)

----------------------------------------------------------------------------
(* Properties of the instruction tables, checked under SpecCpu              *)

PositiveMultipleOf4(n) == n > 0 /\ n % 4 = 0

\* C31: a call that fetched a legal opcode at the start of the program (any
\* byte of the main table but the eleven illegal ones, 0xCB followed by any
\* byte, with either choice of operand bytes) decoded an instruction that
\* is not IllegalInstruction, whose length is 1, 2 or 3 and whose cycle
\* counts, taken and not taken, are positive multiples of 4.
C31_LegalOpcodes ==
  LET e == hist.last IN
  (e.kind = "instr" /\ e.pre.r.pc = ROM_BASE /\ e.opcode \notin IllegalOpcodes) =>
     /\ e.decoded
     /\ e.instr.op # "IllegalInstruction"
     /\ len(e.instr) \in {1, 2, 3}
     /\ PositiveMultipleOf4(cycles(e.instr).taken)
     /\ PositiveMultipleOf4(cycles(e.instr).non_taken)

\* LD (0x05C1),SP was decoded: three bytes and 20 cycles
C31_Witness ==
  LET e == hist.last IN
  /\ e.kind = "instr" /\ e.pre.r.pc = ROM_BASE /\ e.opcode = 8
  /\ e.decoded /\ e.instr.op = "Load16"
  /\ len(e.instr) = 3
  /\ cycles(e.instr) = Static(20)

----------------------------------------------------------------------------
(* Properties of the divider register, checked under SpecDiv                *)

----------------------------------------------------------------------------
(* Properties of the Draw phase, checked under SpecDraw                     *)

\* C33: Draw ends before the scanline does: the mode is never Draw when the
\* line counter stands at 456 or beyond, and the scanline ends at cycle 456,
\* so that after n calls LY is n / 456.
C33_DrawEnds ==
  /\ ppu.mode = "Draw" => ppu.line_data.cur_cycle < SCANLINE_CYCLES
  /\ outcome.st = "ok" =>
       mem.io_registers.lcd_y = host.ppu_cycles \div SCANLINE_CYCLES

\* C34: the background FIFO never holds more than 16 pixels and the object
\* FIFO never more than 8, and no call ends on a failed push or pop of a
\* FIFO (the unwrap of its result).
C34_FifoBounds ==
  /\ Len(ppu.pix_fetcher.bg_fifo) <= BG_FIFO_SIZE
  /\ Len(ppu.pix_fetcher.obj_fifo) <= OBJ_FIFO_SIZE
  /\ ~(outcome.st = "panic" /\ outcome.fault.kind = "unwrap")

\* the second object of a column was merged into the full object FIFO: one
\* object is left in the buffer and emission is about to resume
C34_Witness ==
  /\ ppu.mode = "Draw"
  /\ Len(ppu.draw.buffer) = 1
  /\ ppu.pix_fetcher.object_to_fetch = <<>>
  /\ Len(ppu.pix_fetcher.obj_fifo) = OBJ_FIFO_SIZE
  /\ Len(ppu.pix_fetcher.bg_fifo) = 8
  /\ outcome.st = "ok"

\* C35: in the first cycle of a Draw phase (the call that left the scan has
\* just returned) the fetcher is in its initial state: phase FetchTile, no
\* wait cycle, no object to fetch, x = 0 and both FIFOs empty.
C35_FetcherFresh ==
  LET f == ppu.pix_fetcher IN
  (ppu.mode = "Draw" /\ ppu.line_data.cur_cycle = OAM_CYCLES + 1) =>
     /\ f.phase.k = "FetchTile"
     /\ f.cycles_left = 0
     /\ f.object_to_fetch = <<>>
     /\ f.x_pos = 0
     /\ f.bg_fifo = <<>>
     /\ f.obj_fifo = <<>>

----------------------------------------------------------------------------
(* Properties of the interrupt-request register, checked under SpecIf       *)

\* C36: after a write of v to 0xFF0F the pending set the dispatcher reads
\* (io_registers.interrupts_requested) is the low five bits of v, and a read
\* of 0xFF0F returns the pending bits.
C36_IfAccess ==
  LET pending == mem.io_registers.interrupts_requested % 32
      last == host.last
  IN  /\ (last.op = "write" /\ last.addr = 65295) =>
            (last.st = "ok" /\ pending = last.val % 32)
      /\ (last.op = "read" /\ last.addr = 65295) =>
            (last.st = "ok" /\ last.v % 32 = pending)

----------------------------------------------------------------------------
(* Properties of DI and of the dispatch, checked under SpecCpu              *)

\* C37: when a DI has completed, whether or not an EI preceded it, IME is
\* false and the call dispatched no interrupt; and while IME is false and no
\* EI is waiting, an instruction other than Reti leaves IME false and
\* dispatches nothing.
C37_DiHolds ==
  LET e == hist.last IN
  Completed(e) =>
    /\ e.instr.op = "DI" =>
          (~e.chk.interrupts_master /\ ~e.dispatched)
    /\ (~e.pre.interrupts_master /\ ~e.pre.ei_queued /\ e.instr.op # "Reti") =>
          (~e.chk.interrupts_master /\ ~e.dispatched)

\* C38: the call that dispatches an interrupt is the first of the 20 calls
\* the dispatch is charged: it leaves cycles_remaining = 19, as an
\* instruction of 20 cycles does, so that the handler's first instruction is
\* decoded on the 21st call.
C38_DispatchCycles ==
  LET e == hist.last IN
  (Completed(e) /\ e.dispatched /\ outcome.st = "ok") =>
     cpu.cycles_remaining = 20 - 1

----------------------------------------------------------------------------
(* Properties of the line counter, checked under SpecTog                    *)

\* C39: LY < 154, and LY >= 144 only in VBlank, whatever switches of the LCD
\* and writes to LY the program has made; no call of Ppu::run_cycle fails
\* the two assertions that say so.
C39_LyRange ==
  /\ mem.io_registers.lcd_y < FRAME_Y + 10
  /\ mem.io_registers.lcd_y >= FRAME_Y => ppu.mode = "VBlank"
  /\ ~(outcome.st = "panic" /\ outcome.fault.kind = "debug_assert")

\* The LCD was switched off and, at the time of line 152, on again, LY was
\* written, and the PPU is on line 1 of the frame it then started
C39_Witness ==
  /\ host.switched = "on" /\ host.writes_left = 0 /\ host.regs_left = 0
  /\ host.ppu_cycles > 69700 + SCANLINE_CYCLES
  /\ mem.io_registers.lcd_y = 1
  /\ ppu.mode = "OAMScan"
  /\ outcome.st = "ok"

----------------------------------------------------------------------------
(* Properties of the inline queue, checked under SpecQueue                  *)

\* The elements of the queue, oldest first; 0 stands for an empty slot
QueueContents(q) ==
  [i \in 1..q.cur_elements |->
     IF q.data[i - 1] = <<>> THEN 0 ELSE q.data[i - 1][1]]

\* C40: the queue holds the sequence a bounded sequence of at most N
\* elements would hold after the same operations: a push appends in order,
\* or returns Err and changes nothing when the result would exceed N; a pop
\* returns the oldest elements in insertion order, or returns Err and
\* changes nothing when fewer are present; len and space_remaining are the
\* length and N minus it; no operation aborts.
C40_QueueRefines ==
  LET last == host.last IN
  /\ outcome.st = "ok"
  /\ QueueContents(host.q) = host.seq
  /\ Len(host.seq) <= QueueSize
  /\ InlineQueue_len(host.q) = Len(host.seq)
  /\ InlineQueue_space_remaining(host.q) = QueueSize - Len(host.seq)
  /\ last.op = "push" =>
        /\ last.ok = (Len(last.seq) + last.n <= QueueSize)
        /\ last.ok => host.seq = last.seq \o last.elems
        /\ ~last.ok => host.q = last.q
  /\ last.op = "pop" =>
        /\ last.ok = (Len(last.seq) >= last.n)
        /\ last.ok => /\ last.buf = SubSeq(last.seq, 1, last.n)
                      /\ host.seq = SubSeq(last.seq, last.n + 1, Len(last.seq))
        /\ ~last.ok => host.q = last.q

\* Two elements were popped from a full queue and the third, moved to the
\* front, is what the queue holds
C40_Witness ==
  /\ host.last.op = "pop" /\ host.last.n = 2 /\ host.last.ok
  /\ Len(host.last.seq) = QueueSize
  /\ host.last.buf = <<1, 2>>
  /\ host.seq = <<2>>
  /\ host.q.data[0] = <<2>> /\ host.q.cur_elements = 1

====
